---- MODULE Spec2Model ----
(***************************************************************************)
(* Sign-language recognition core: the temporal aggregator, the sentence   *)
(* constructor (with its continuous wrapper) and the pipeline orchestrator *)
(* of src/core, as state machines.                                         *)
(*                                                                         *)
(* Conventions.                                                            *)
(*  - A Python str is a sequence of one-character strings, so that         *)
(*    upper(), len(), slicing and the regular expressions of _format_text  *)
(*    are computed, not assumed.                                           *)
(*  - A Python float that carries a confidence is an exact rational        *)
(*    <<numerator, denominator>> in lowest terms.                          *)
(*  - time.time() is the variable now, counted in half seconds, so that    *)
(*    word_timeout = 1.5 s is 3 and sentence_timeout = 3.0 s is 6.  The    *)
(*    clock never reads 0 (0.0 is the code's "no gesture yet" marker).     *)
(*  - Optional[T] is a sequence of length at most one: None is <<>>.       *)
(***************************************************************************)
EXTENDS Integers, Sequences, FiniteSets, TLC

(***************************************************************************)
(* Bounds of the model                                                     *)
(***************************************************************************)
\* calls made on a stand-alone aggregator in one run
MaxAggOps == 5
\* frames processed before a sign is held, and frames of the held sign
MaxBeforeFrames == 3
MaxSteady == 16
\* calls made on an aggregator with a re-entering callback, and how many
\* times the callback re-enters
MaxReentryOps == 4
MaxReentries == 1
\* correction and finalize calls made on a stand-alone constructor in one run
MaxEdits == 1
\* correction calls made on the pipeline between two start() or clear() calls
MaxPipelineEdits == 1

(***************************************************************************)
(* Optional values                                                         *)
(***************************************************************************)
None == <<>>
Some(x) == <<x>>
IsSome(o) == Len(o) = 1
Get(o) == o[1]

\* a local variable: With(e, LAMBDA x : body) is body with x bound to the
\* value of e
With(x, Op(_)) == Op(x)

(***************************************************************************)
(* Exact rationals for confidences                                         *)
(***************************************************************************)
RECURSIVE GCD(_, _)
GCD(a, b) == IF b = 0 THEN a ELSE GCD(b, a % b)

Rat(n, d) == IF n = 0 THEN <<0, 1>> ELSE <<n \div GCD(n, d), d \div GCD(n, d)>>
RZero == <<0, 1>>
ROne == <<1, 1>>
RAdd(a, b) == Rat(a[1] * b[2] + b[1] * a[2], a[2] * b[2])
RMul(a, b) == Rat(a[1] * b[1], a[2] * b[2])
RDivInt(a, k) == Rat(a[1], a[2] * k)
RLt(a, b) == a[1] * b[2] < b[1] * a[2]
RLe(a, b) == a[1] * b[2] <= b[1] * a[2]
RMin(a, b) == IF RLt(b, a) THEN b ELSE a
RMax(a, b) == IF RLt(a, b) THEN b ELSE a

RECURSIVE RSum(_)
RSum(s) == IF s = <<>> THEN RZero ELSE RAdd(Head(s), RSum(Tail(s)))

\* sum(xs) / len(xs), 0.0 for an empty list
RMean(s) == IF s = <<>> THEN RZero ELSE RDivInt(RSum(s), Len(s))

(***************************************************************************)
(* Python str operations on sequences of characters                        *)
(***************************************************************************)
UpperAlpha == <<"A", "B", "C", "D", "E", "F", "G", "H", "I", "J", "K", "L", "M",
                "N", "O", "P", "Q", "R", "S", "T", "U", "V", "W", "X", "Y", "Z">>
LowerAlpha == <<"a", "b", "c", "d", "e", "f", "g", "h", "i", "j", "k", "l", "m",
                "n", "o", "p", "q", "r", "s", "t", "u", "v", "w", "x", "y", "z">>
DigitChars == <<"0", "1", "2", "3", "4", "5", "6", "7", "8", "9">>

Range(s) == {s[i] : i \in 1..Len(s)}
isupper(c) == c \in Range(UpperAlpha)
islower(c) == c \in Range(LowerAlpha)
isalpha(c) == isupper(c) \/ islower(c)
isdigit(c) == c \in Range(DigitChars)
\* \w of the re module
isword(c) == isalpha(c) \/ isdigit(c) \/ c = "_"
isspace(c) == c = " "

upperc(c) == IF islower(c) THEN UpperAlpha[CHOOSE i \in 1..26 : LowerAlpha[i] = c] ELSE c
lowerc(c) == IF isupper(c) THEN LowerAlpha[CHOOSE i \in 1..26 : UpperAlpha[i] = c] ELSE c
upper(s) == [i \in 1..Len(s) |-> upperc(s[i])]
lower(s) == [i \in 1..Len(s) |-> lowerc(s[i])]

\* sep.join(parts) with sep = " "
RECURSIVE join(_)
join(parts) ==
  IF parts = <<>> THEN <<>>
  ELSE IF Len(parts) = 1 THEN parts[1]
  ELSE parts[1] \o <<" ">> \o join(Tail(parts))

\* "".join(letters) for a list of one-character strings
RECURSIVE concat(_)
concat(parts) == IF parts = <<>> THEN <<>> ELSE Head(parts) \o concat(Tail(parts))

\* text.split(): the maximal runs of non-space characters
RECURSIVE splitFrom(_, _, _)
splitFrom(text, i, cur) ==
  IF i > Len(text) THEN (IF cur = <<>> THEN <<>> ELSE <<cur>>)
  ELSE IF isspace(text[i])
       THEN (IF cur = <<>> THEN <<>> ELSE <<cur>>) \o splitFrom(text, i + 1, <<>>)
       ELSE splitFrom(text, i + 1, Append(cur, text[i]))
split(text) == splitFrom(text, 1, <<>>)

\* re.sub(r'\b' + pat + r'\b', repl, text), pat beginning and ending with a
\* word character; ignorecase is flags=re.IGNORECASE.  Matches are taken
\* leftmost, non-overlapping, against the original text.
MatchAt(text, i, pat, ignorecase) ==
  /\ i + Len(pat) - 1 <= Len(text)
  /\ \A k \in 1..Len(pat) :
       IF ignorecase THEN lowerc(text[i + k - 1]) = lowerc(pat[k])
                     ELSE text[i + k - 1] = pat[k]
  /\ (i = 1 \/ ~isword(text[i - 1]))
  /\ (i + Len(pat) > Len(text) \/ ~isword(text[i + Len(pat)]))
RECURSIVE subFrom(_, _, _, _, _)
subFrom(text, i, pat, repl, ignorecase) ==
  IF i > Len(text) THEN <<>>
  ELSE IF MatchAt(text, i, pat, ignorecase)
       THEN repl \o subFrom(text, i + Len(pat), pat, repl, ignorecase)
       ELSE <<text[i]>> \o subFrom(text, i + 1, pat, repl, ignorecase)
re_sub(pat, repl, text, ignorecase) == subFrom(text, 1, pat, repl, ignorecase)

(***************************************************************************)
(* SignVocabulary (src/core/sign_vocabulary.py)                            *)
(***************************************************************************)
\* _load_default_vocabulary: the letters A-Z
letter_signs ==
  [i \in 1..26 |->
    [id |-> <<"letter", LowerAlpha[i]>>, text |-> <<UpperAlpha[i]>>,
     category |-> "LETTER",
     gesture_labels |-> << <<UpperAlpha[i]>>, <<LowerAlpha[i]>> >>]]

number_words ==
  << <<"z","e","r","o">>, <<"o","n","e">>, <<"t","w","o">>, <<"t","h","r","e","e">>,
     <<"f","o","u","r">>, <<"f","i","v","e">>, <<"s","i","x">>, <<"s","e","v","e","n">>,
     <<"e","i","g","h","t">>, <<"n","i","n","e">> >>
\* _load_default_vocabulary: the numbers 0-9
number_signs ==
  [i \in 1..10 |->
    [id |-> <<"number", DigitChars[i]>>, text |-> <<DigitChars[i]>>,
     category |-> "NUMBER",
     gesture_labels |-> << <<DigitChars[i]>>, number_words[i] >>]]

\* _load_default_vocabulary: the word and phrase signs
common_words ==
  <<
    [id |-> <<"word","hello">>, text |-> <<"H","e","l","l","o">>,
      category |-> "WORD",
      gesture_labels |-> << <<"h","e","l","l","o">>, <<"w","a","v","e">>, <<"W","A","V","E">>, <<"h","i">> >>],
    [id |-> <<"word","goodbye">>, text |-> <<"G","o","o","d","b","y","e">>,
      category |-> "WORD",
      gesture_labels |-> << <<"g","o","o","d","b","y","e">>, <<"b","y","e">> >>],
    [id |-> <<"word","thanks">>, text |-> <<"T","h","a","n","k"," ","y","o","u">>,
      category |-> "WORD",
      gesture_labels |-> << <<"t","h","a","n","k","_","y","o","u">>, <<"t","h","a","n","k","s">>, <<"t","h","a","n","k","y","o","u">> >>],
    [id |-> <<"word","please">>, text |-> <<"P","l","e","a","s","e">>,
      category |-> "WORD",
      gesture_labels |-> << <<"p","l","e","a","s","e">> >>],
    [id |-> <<"word","sorry">>, text |-> <<"S","o","r","r","y">>,
      category |-> "WORD",
      gesture_labels |-> << <<"s","o","r","r","y">> >>],
    [id |-> <<"word","yes">>, text |-> <<"Y","e","s">>,
      category |-> "WORD",
      gesture_labels |-> << <<"y","e","s">>, <<"t","h","u","m","b","s","_","u","p">>, <<"T","H","U","M","B","S","_","U","P">> >>],
    [id |-> <<"word","no">>, text |-> <<"N","o">>,
      category |-> "WORD",
      gesture_labels |-> << <<"n","o">>, <<"t","h","u","m","b","s","_","d","o","w","n">>, <<"T","H","U","M","B","S","_","D","O","W","N">> >>],
    [id |-> <<"word","i">>, text |-> <<"I">>,
      category |-> "WORD",
      gesture_labels |-> << <<"i">>, <<"m","e">>, <<"I","_","P","O","I","N","T">> >>],
    [id |-> <<"word","you">>, text |-> <<"Y","o","u">>,
      category |-> "WORD",
      gesture_labels |-> << <<"y","o","u">>, <<"Y","O","U","_","P","O","I","N","T">> >>],
    [id |-> <<"word","want">>, text |-> <<"W","a","n","t">>,
      category |-> "WORD",
      gesture_labels |-> << <<"w","a","n","t">> >>],
    [id |-> <<"word","need">>, text |-> <<"N","e","e","d">>,
      category |-> "WORD",
      gesture_labels |-> << <<"n","e","e","d">> >>],
    [id |-> <<"word","help">>, text |-> <<"H","e","l","p">>,
      category |-> "WORD",
      gesture_labels |-> << <<"h","e","l","p">> >>],
    [id |-> <<"word","stop">>, text |-> <<"S","t","o","p">>,
      category |-> "WORD",
      gesture_labels |-> << <<"s","t","o","p">>, <<"S","T","O","P","_","H","A","N","D">> >>],
    [id |-> <<"word","love">>, text |-> <<"L","o","v","e">>,
      category |-> "WORD",
      gesture_labels |-> << <<"l","o","v","e">>, <<"h","e","a","r","t">> >>],
    [id |-> <<"word","iloveyou">>, text |-> <<"I"," ","l","o","v","e"," ","y","o","u">>,
      category |-> "PHRASE",
      gesture_labels |-> << <<"i","_","l","o","v","e","_","y","o","u">>, <<"i","l","y">>, <<"I","L","Y">> >>],
    [id |-> <<"word","what">>, text |-> <<"W","h","a","t","?">>,
      category |-> "WORD",
      gesture_labels |-> << <<"w","h","a","t">> >>],
    [id |-> <<"word","where">>, text |-> <<"W","h","e","r","e","?">>,
      category |-> "WORD",
      gesture_labels |-> << <<"w","h","e","r","e">> >>],
    [id |-> <<"word","how">>, text |-> <<"H","o","w","?">>,
      category |-> "WORD",
      gesture_labels |-> << <<"h","o","w">> >>],
    [id |-> <<"word","name">>, text |-> <<"N","a","m","e">>,
      category |-> "WORD",
      gesture_labels |-> << <<"n","a","m","e">> >>],
    [id |-> <<"word","water">>, text |-> <<"W","a","t","e","r">>,
      category |-> "WORD",
      gesture_labels |-> << <<"w","a","t","e","r">> >>],
    [id |-> <<"word","food">>, text |-> <<"F","o","o","d">>,
      category |-> "WORD",
      gesture_labels |-> << <<"f","o","o","d">>, <<"e","a","t">> >>]
  >>

\* _load_default_vocabulary: the control gestures
controls ==
  <<
    [id |-> <<"ctrl","space">>, text |-> <<" ">>,
      category |-> "CONTROL",
      gesture_labels |-> << <<"s","p","a","c","e">>, <<"S","P","A","C","E">>, <<"_">> >>],
    [id |-> <<"ctrl","backspace">>, text |-> <<"[","D","E","L","E","T","E","]">>,
      category |-> "CONTROL",
      gesture_labels |-> << <<"b","a","c","k","s","p","a","c","e">>, <<"d","e","l","e","t","e">> >>],
    [id |-> <<"ctrl","enter">>, text |-> <<"[","E","N","T","E","R","]">>,
      category |-> "CONTROL",
      gesture_labels |-> << <<"e","n","t","e","r">>, <<"n","e","w","l","i","n","e">> >>]
  >>

\* letter sequence -> word
_word_patterns ==
  <<
    << <<"H","I">>, <<"H","i">> >>,
    << <<"B","Y","E">>, <<"B","y","e">> >>,
    << <<"O","K">>, <<"O","K">> >>,
    << <<"Y","E","S">>, <<"Y","e","s">> >>,
    << <<"N","O">>, <<"N","o">> >>,
    << <<"H","E","L","P">>, <<"H","e","l","p">> >>,
    << <<"S","T","O","P">>, <<"S","t","o","p">> >>,
    << <<"L","O","V","E">>, <<"L","o","v","e">> >>,
    << <<"T","H","A","N","K">>, <<"T","h","a","n","k">> >>,
    << <<"T","H","A","N","K","S">>, <<"T","h","a","n","k","s">> >>,
    << <<"P","L","E","A","S","E">>, <<"P","l","e","a","s","e">> >>,
    << <<"S","O","R","R","Y">>, <<"S","o","r","r","y">> >>,
    << <<"W","A","T","E","R">>, <<"W","a","t","e","r">> >>,
    << <<"F","O","O","D">>, <<"F","o","o","d">> >>,
    << <<"N","A","M","E">>, <<"N","a","m","e">> >>,
    << <<"H","E","L","L","O">>, <<"H","e","l","l","o">> >>,
    << <<"G","O","O","D">>, <<"G","o","o","d">> >>,
    << <<"B","A","D">>, <<"B","a","d">> >>,
    << <<"H","O","W">>, <<"H","o","w">> >>,
    << <<"W","H","A","T">>, <<"W","h","a","t">> >>,
    << <<"W","H","E","R","E">>, <<"W","h","e","r","e">> >>,
    << <<"W","H","E","N">>, <<"W","h","e","n">> >>,
    << <<"W","H","O">>, <<"W","h","o">> >>,
    << <<"W","H","Y">>, <<"W","h","y">> >>
  >>

\* SentenceConstructor.__init__: abbreviations to expand
_abbreviations ==
  <<
    << <<"T","Y">>, <<"T","h","a","n","k"," ","y","o","u">> >>,
    << <<"T","Y","S">>, <<"T","h","a","n","k"," ","y","o","u"," ","s","o"," ","m","u","c","h">> >>,
    << <<"N","P">>, <<"N","o"," ","p","r","o","b","l","e","m">> >>,
    << <<"P","L","Z">>, <<"P","l","e","a","s","e">> >>,
    << <<"P","L","S">>, <<"P","l","e","a","s","e">> >>,
    << <<"I","L","Y">>, <<"I"," ","l","o","v","e"," ","y","o","u">> >>,
    << <<"O","M","G">>, <<"O","h"," ","m","y"," ","g","o","d">> >>,
    << <<"B","T","W">>, <<"B","y"," ","t","h","e"," ","w","a","y">> >>,
    << <<"I","D","K">>, <<"I"," ","d","o","n","'","t"," ","k","n","o","w">> >>,
    << <<"N","V","M">>, <<"N","e","v","e","r"," ","m","i","n","d">> >>
  >>

\* the registration order of _load_default_vocabulary
Signs == letter_signs \o number_signs \o common_words \o controls

\* _add_sign: every label, upper-cased and lower-cased, maps to the sign
\* registered last under that key
GestureKeys ==
  UNION {UNION {{upper(Signs[i].gesture_labels[j]), lower(Signs[i].gesture_labels[j])} :
                  j \in 1..Len(Signs[i].gesture_labels)} : i \in 1..Len(Signs)}
SignHasKey(i, key) ==
  \E j \in 1..Len(Signs[i].gesture_labels) :
     upper(Signs[i].gesture_labels[j]) = key \/ lower(Signs[i].gesture_labels[j]) = key
LastIndex(S) == CHOOSE i \in S : \A j \in S : j <= i
_gesture_to_sign ==
  [key \in GestureKeys |-> LastIndex({i \in 1..Len(Signs) : SignHasKey(i, key)})]

\* _add_sign: text.upper() and text.lower() map to the sign registered last
TextKeys == UNION {{upper(Signs[i].text), lower(Signs[i].text)} : i \in 1..Len(Signs)}
_text_to_sign ==
  [key \in TextKeys |->
     LastIndex({i \in 1..Len(Signs) : upper(Signs[i].text) = key \/ lower(Signs[i].text) = key})]

get_sign_by_gesture(gesture_label) ==
  IF gesture_label \in GestureKeys THEN Some(Signs[_gesture_to_sign[gesture_label]]) ELSE None

get_sign_by_text(text) ==
  IF text \in TextKeys THEN Some(Signs[_text_to_sign[text]])
  ELSE IF upper(text) \in TextKeys THEN Some(Signs[_text_to_sign[upper(text)]])
  ELSE IF lower(text) \in TextKeys THEN Some(Signs[_text_to_sign[lower(text)]])
  ELSE None

is_word_gesture(gesture_label) ==
  With(get_sign_by_gesture(gesture_label), LAMBDA sign :
    IsSome(sign) /\ Get(sign).category \in {"WORD", "PHRASE"})

\* dict lookup in a table of <<key, value>> pairs
Lookup(table, key) ==
  With({i \in 1..Len(table) : table[i][1] = key}, LAMBDA found :
    IF found # {} THEN Some(table[CHOOSE i \in found : TRUE][2]) ELSE None)

recognize_word_pattern(letters) == Lookup(_word_patterns, upper(letters))

(***************************************************************************)
(* Gesture data (src/core/gesture_sequence.py)                             *)
(***************************************************************************)
\* RecognizedGesture(...)
RecognizedGesture(label, gesture_type, confidence, start_time, end_time, frame_count, supporting_frames, semantic_meaning, is_word_level) ==
  [label |-> label, gesture_type |-> gesture_type, confidence |-> confidence,
   start_time |-> start_time, end_time |-> end_time, frame_count |-> frame_count,
   supporting_frames |-> supporting_frames,
   semantic_meaning |-> semantic_meaning, is_word_level |-> is_word_level]

\* GestureSequence()
GestureSequence ==
  [gestures |-> <<>>, start_time |-> 0, end_time |-> 0, is_complete |-> FALSE,
   translated_text |-> None, translation_confidence |-> RZero]

\* GestureSequence.add_gesture
GestureSequence_add_gesture(seq, gesture) ==
  [seq EXCEPT !.gestures = Append(@, gesture),
              !.start_time = IF Len(seq.gestures) = 0 THEN gesture.start_time ELSE @,
              !.end_time = gesture.end_time]

\* GestureSequence.average_confidence
GestureSequence_average_confidence(seq) ==
  RMean([i \in 1..Len(seq.gestures) |-> seq.gestures[i].confidence])

\* TranslationResult.is_valid
is_valid(result) == result.text # <<>> /\ RLt(RZero, result.confidence)

(***************************************************************************)
(* SentenceConstructor (src/core/sentence_constructor.py)                  *)
(***************************************************************************)
\* word_timeout: float = 1.5, in half seconds
DefaultWordTimeout == 3
\* sentence_timeout: float = 3.0, in half seconds
DefaultSentenceTimeout == 6

\* WordCandidate(start_time=...)
WordCandidate(start_time) ==
  [letters |-> <<>>, start_time |-> start_time, confidences |-> <<>>]

\* SentenceConstructor.__init__
SentenceConstructor(mode, word_timeout, sentence_timeout) ==
  [mode |-> mode, word_timeout |-> word_timeout, sentence_timeout |-> sentence_timeout,
   _current_word |-> WordCandidate(0),
   _words |-> <<>>,
   _gesture_sequence |-> GestureSequence,
   _last_gesture_time |-> 0,
   _sentence_start_time |-> 0,
   _raw_text |-> <<>>,
   _formatted_text |-> <<>>]

_word_delimiters ==
  { <<"W","A","V","E">>, <<"S","P","A","C","E">>, <<" ">>, <<"_">>, <<"P","A","U","S","E">> }

_is_letter_or_number(label) == Len(label) = 1 /\ (isalpha(label[1]) \/ isdigit(label[1]))

_get_word_text(gesture) ==
  IF IsSome(gesture.semantic_meaning) /\ Get(gesture.semantic_meaning) # <<>>
  THEN Get(gesture.semantic_meaning)
  ELSE With(get_sign_by_gesture(gesture.label), LAMBDA sign :
         IF IsSome(sign) THEN Get(sign).text ELSE gesture.label)

\* the word that _finalize_word appends for the pending letters
FinalizedWordText(mode, word_text) ==
  IF mode \in {"WORD_RECOGNITION", "HYBRID"}
  THEN With(recognize_word_pattern(word_text), LAMBDA recognized :
         IF IsSome(recognized) THEN Get(recognized)
         ELSE With(Lookup(_abbreviations, upper(word_text)), LAMBDA abbreviation :
                IF IsSome(abbreviation) THEN Get(abbreviation) ELSE word_text))
  ELSE word_text

\* _finalize_word without its guards on an empty word
_finalize_word_unguarded(sc, t) ==
  With(FinalizedWordText(sc.mode, sc._current_word.letters), LAMBDA word_text :
    [sc EXCEPT !._words = Append(@, word_text), !._current_word = WordCandidate(t)])

_finalize_word(sc, t) ==
  IF Len(sc._current_word.letters) = 0 THEN sc
  ELSE With(FinalizedWordText(sc.mode, sc._current_word.letters), LAMBDA word_text :
         [sc EXCEPT !._words = IF word_text # <<>> THEN Append(@, word_text) ELSE @,
                    !._current_word = WordCandidate(t)])

\* the contraction table of _format_text, in dict order
contractions ==
  << << <<"I"," ","M">>, <<"I","'","m">> >>,
     << <<"D","O","N","T">>, <<"d","o","n","'","t">> >>,
     << <<"W","O","N","T">>, <<"w","o","n","'","t">> >>,
     << <<"C","A","N","T">>, <<"c","a","n","'","t">> >>,
     << <<"Y","O","U","R","E">>, <<"y","o","u","'","r","e">> >>,
     << <<"T","H","E","Y","R","E">>, <<"t","h","e","y","'","r","e">> >>,
     << <<"W","E","R","E">>, <<"w","e","'","r","e">> >>,
     << <<"I","L","L">>, <<"I","'","l","l">> >>,
     << <<"Y","O","U","L","L">>, <<"y","o","u","'","l","l">> >> >>

RECURSIVE ApplyContractions(_, _)
ApplyContractions(text, k) ==
  IF k > Len(contractions) THEN text
  ELSE ApplyContractions(re_sub(contractions[k][1], contractions[k][2], text, TRUE), k + 1)

_format_text(text) ==
  IF text = <<>> THEN <<>>
  ELSE With(join(split(text)), LAMBDA normalized :
         With(IF normalized = <<>> THEN <<>>
              ELSE <<upperc(normalized[1])>> \o Tail(normalized), LAMBDA capitalized :
           ApplyContractions(re_sub(<<"i">>, <<"I">>, capitalized, FALSE), 1)))

_update_text(sc) ==
  With(join(IF Len(sc._current_word.letters) > 0
            THEN Append(sc._words, sc._current_word.letters)
            ELSE sc._words), LAMBDA raw_text :
    [sc EXCEPT !._raw_text = raw_text, !._formatted_text = _format_text(raw_text)])

\* SentenceConstructor.add_gesture at wall-clock time t
\* add_gesture: the timeout check on the gap since the last gesture
add_gesture_timeout(sc, t) ==
  IF sc._last_gesture_time > 0 /\ t - sc._last_gesture_time > sc.word_timeout
  THEN _finalize_word(sc, t) ELSE sc

\* add_gesture: the branch on the kind of gesture
add_gesture_kind(sc, gesture, t) ==
  IF gesture.is_word_level \/ is_word_gesture(gesture.label)
  THEN [_finalize_word(sc, t) EXCEPT !._words = Append(@, _get_word_text(gesture))]
  ELSE IF upper(gesture.label) \in _word_delimiters
  THEN _finalize_word(sc, t)
  ELSE IF _is_letter_or_number(gesture.label)
  THEN [sc EXCEPT !._current_word.letters = Append(@, upperc(gesture.label[1])),
                  !._current_word.confidences = Append(@, gesture.confidence)]
  ELSE sc

add_gesture(sc, gesture, t) ==
  With(add_gesture_timeout(
         [sc EXCEPT !._gesture_sequence = GestureSequence_add_gesture(@, gesture)], t),
       LAMBDA s2 :
    _update_text(add_gesture_kind(
      [s2 EXCEPT !._last_gesture_time = t,
                 !._sentence_start_time = IF @ = 0 THEN t ELSE @], gesture, t)))

\* check_timeout that wants the timeouts exceeded, not reached
check_timeout_exceeded(sc, t) ==
  IF sc._last_gesture_time = 0 THEN <<FALSE, FALSE>>
  ELSE << t - sc._last_gesture_time > sc.word_timeout,
          t - sc._last_gesture_time > sc.sentence_timeout >>

\* SentenceConstructor.check_timeout: <<word_timeout, sentence_timeout>>
check_timeout(sc, t) ==
  IF sc._last_gesture_time = 0 THEN <<FALSE, FALSE>>
  ELSE << t - sc._last_gesture_time >= sc.word_timeout,
          t - sc._last_gesture_time >= sc.sentence_timeout >>

\* TranslationResult(...)
TranslationResult(sc, t) ==
  [text |-> sc._formatted_text,
   confidence |-> GestureSequence_average_confidence(sc._gesture_sequence),
   source_sequence |-> sc._gesture_sequence,
   gesture_count |-> Len(sc._gesture_sequence.gestures),
   capture_duration |-> IF sc._sentence_start_time # 0 THEN t - sc._sentence_start_time ELSE 0,
   word_count |-> Len(sc._words),
   average_gesture_confidence |-> GestureSequence_average_confidence(sc._gesture_sequence)]

\* SentenceConstructor.finalize_sentence: the constructor afterwards
finalize_sentence(sc, t) ==
  With(_update_text(_finalize_word(sc, t)), LAMBDA s1 :
    [s1 EXCEPT !._gesture_sequence =
       [@ EXCEPT !.is_complete = TRUE,
                 !.translated_text = Some(s1._formatted_text),
                 !.translation_confidence =
                     GestureSequence_average_confidence(s1._gesture_sequence)]])

\* SentenceConstructor.finalize_sentence: the result returned
finalize_sentence_result(sc, t) == TranslationResult(finalize_sentence(sc, t), t)

get_current_text(sc) == _update_text(sc)._formatted_text

waiting == <<"(","w","a","i","t","i","n","g",".",".",".",")">>
get_preview(sc) ==
  With(IF Len(sc._current_word.letters) > 0
       THEN Append(sc._words, <<"[">> \o sc._current_word.letters \o <<"]">>)
       ELSE sc._words, LAMBDA parts :
    IF parts # <<>> THEN join(parts) ELSE waiting)

\* SentenceConstructor.clear
SentenceConstructor_clear(sc) ==
  [sc EXCEPT !._current_word = WordCandidate(0),
             !._words = <<>>,
             !._gesture_sequence = GestureSequence,
             !._last_gesture_time = 0,
             !._sentence_start_time = 0,
             !._raw_text = <<>>,
             !._formatted_text = <<>>]

Front(s) == SubSeq(s, 1, Len(s) - 1)
Last(s) == s[Len(s)]

\* SentenceConstructor.remove_last_word: the constructor afterwards
remove_last_word(sc) ==
  IF Len(sc._current_word.letters) > 0
  THEN _update_text([sc EXCEPT !._current_word = WordCandidate(0)])
  ELSE IF sc._words # <<>>
  THEN _update_text([sc EXCEPT !._words = Front(@)])
  ELSE sc
remove_last_word_result(sc) == Len(sc._current_word.letters) > 0 \/ sc._words # <<>>

\* SentenceConstructor.remove_last_letter: the constructor afterwards
remove_last_letter(sc) ==
  IF Len(sc._current_word.letters) > 0
  THEN _update_text([sc EXCEPT !._current_word.letters = Front(@),
                               !._current_word.confidences =
                                   IF @ # <<>> THEN Front(@) ELSE @])
  ELSE IF sc._words # <<>>
  THEN _update_text([sc EXCEPT !._words = Front(@),
                               !._current_word.letters =
                                   IF Len(Last(sc._words)) > 1 THEN Front(Last(sc._words)) ELSE @])
  ELSE sc
remove_last_letter_result(sc) == Len(sc._current_word.letters) > 0 \/ sc._words # <<>>

\* SentenceConstructor.insert_space
insert_space(sc, t) == _update_text(_finalize_word(sc, t))

(***************************************************************************)
(* TemporalAggregator (src/core/temporal_aggregator.py)                    *)
(***************************************************************************)
\* GestureFrame(...) as the aggregator reads it
GestureFrame(hand_detected, predicted_label, confidence, gesture_type) ==
  [hand_detected |-> hand_detected, predicted_label |-> predicted_label,
   confidence |-> confidence, gesture_type |-> gesture_type]

\* TemporalAggregator.__init__
TemporalAggregator(window_size, stability_threshold, min_confidence, transition_frames) ==
  [window_size |-> window_size,
   stability_threshold |-> stability_threshold,
   min_confidence |-> min_confidence,
   transition_frames |-> transition_frames,
   _prediction_history |-> <<>>,
   _state |-> "IDLE",
   _current_candidate |-> None,
   _last_stable_gesture |-> None,
   _frame_count |-> 0,
   _no_hand_count |-> 0,
   _total_gestures_recognized |-> 0]

\* deque(maxlen=window_size).append
deque_append(d, x, maxlen) ==
  IF maxlen = 0 THEN d
  ELSE IF Len(d) >= maxlen THEN Append(Tail(d), x)
  ELSE Append(d, x)

\* GestureCandidate.duration_frames
duration_frames(candidate) == candidate.end_frame - candidate.start_frame + 1

\* GestureCandidate.average_confidence
average_confidence(candidate) == RMean(candidate.confidences)

\* the keys of label_votes, in insertion order
RECURSIVE VoteLabels(_)
VoteLabels(history) ==
  IF history = <<>> THEN <<>>
  ELSE LET rest == VoteLabels(Front(history))
       IN IF Last(history)[1] \in Range(rest) THEN rest ELSE Append(rest, Last(history)[1])

\* label_votes[label]
VotesFor(history, label) == SelectSeq(history, LAMBDA p : p[1] = label)
VoteConfidences(history, label) ==
  With(VotesFor(history, label), LAMBDA votes : [i \in 1..Len(votes) |-> votes[i][2]])

\* a score that divides the average by the count
Score_per_sample(history, label) ==
  With(VoteConfidences(history, label), LAMBDA confidences :
    RDivInt(RMean(confidences), Len(confidences)))

\* score = count * avg_conf
Score(history, label) ==
  With(VoteConfidences(history, label), LAMBDA confidences :
    RMul(Rat(Len(confidences), 1), RMean(confidences)))

\* the winner loop: <<best_label, best_score>> after the first k labels
RECURSIVE Winner(_, _, _)
Winner(history, labels, k) ==
  IF k = 0 THEN <<None, RZero>>
  ELSE With(Winner(history, labels, k - 1), LAMBDA prev :
         With(Score(history, labels[k]), LAMBDA score :
           IF RLt(prev[2], score) THEN <<Some(labels[k]), score>> ELSE prev))

\* the minimum consistency 0.4
MinConsistency == <<2, 5>>

\* TemporalAggregator._perform_voting: <<winning_label, aggregated_confidence>>
_perform_voting(history) ==
  IF Len(history) < 2 THEN <<None, RZero>>
  ELSE With(VoteLabels(history), LAMBDA labels :
       With(Winner(history, labels, Len(labels))[1], LAMBDA best_label :
         IF ~IsSome(best_label) THEN <<None, RZero>>
         ELSE With(VoteConfidences(history, Get(best_label)), LAMBDA label_confidences :
              With(Rat(Len(label_confidences), Len(history)), LAMBDA consistency :
                IF RLt(consistency, MinConsistency) THEN <<None, RZero>>
                ELSE <<best_label,
                       RMin(ROne, RMul(RMean(label_confidences),
                                       RAdd(<<1, 2>>, RMul(<<1, 2>>, consistency))))>>))))

\* TemporalAggregator._start_candidate
_start_candidate(agg, label, gesture_type, frame_id, timestamp) ==
  [agg EXCEPT !._current_candidate =
     Some([label |-> label, gesture_type |-> gesture_type,
           start_frame |-> frame_id, end_frame |-> frame_id,
           frame_ids |-> <<frame_id>>,
           confidences |-> <<>>, peak_confidence |-> RZero,
           start_time |-> timestamp, last_seen_time |-> timestamp])]

\* TemporalAggregator._update_candidate
_update_candidate(agg, frame_id, confidence, timestamp) ==
  IF ~IsSome(agg._current_candidate) THEN agg
  ELSE [agg EXCEPT !._current_candidate =
          Some([Get(@) EXCEPT !.end_frame = frame_id,
                              !.frame_ids = Append(@, frame_id),
                              !.confidences = Append(@, confidence),
                              !.peak_confidence = RMax(@, confidence),
                              !.last_seen_time = timestamp])]

\* _change_state that never leaves STABLE or TRANSITIONING
_change_state_held(agg, new_state) ==
  IF agg._state \in {"STABLE", "TRANSITIONING"} THEN agg
  ELSE [agg EXCEPT !._state = new_state]

\* TemporalAggregator._change_state
_change_state(agg, new_state) == [agg EXCEPT !._state = new_state]

\* the RecognizedGesture that _finalize_gesture builds from the candidate
CandidateGesture(candidate) ==
  RecognizedGesture(candidate.label, candidate.gesture_type,
                    average_confidence(candidate),
                    candidate.start_time, candidate.last_seen_time,
                    duration_frames(candidate), candidate.frame_ids, None, FALSE)

\* TemporalAggregator._finalize_gesture: [agg, out], out the gesture handed
\* to the gesture-recognized callback and returned
_finalize_gesture(agg) ==
  IF ~IsSome(agg._current_candidate) THEN [agg |-> agg, out |-> None]
  ELSE With(CandidateGesture(Get(agg._current_candidate)), LAMBDA gesture :
         [agg |-> [agg EXCEPT !._total_gestures_recognized = @ + 1,
                              !._last_stable_gesture = Some(gesture),
                              !._current_candidate = None],
          out |-> Some(gesture)])

\* TemporalAggregator._update_state: [agg, out]
_update_state(agg, label, confidence, frame, frame_id, current_time) ==
  IF agg._state = "IDLE"
  THEN [agg |-> _change_state(_start_candidate(agg, label, frame.gesture_type,
                                               frame_id, current_time), "TRACKING"),
        out |-> None]
  ELSE IF agg._state = "TRACKING"
  THEN IF ~IsSome(agg._current_candidate)
       THEN [agg |-> _start_candidate(agg, label, frame.gesture_type, frame_id, current_time),
             out |-> None]
       ELSE IF label = Get(agg._current_candidate).label
       THEN With(_update_candidate(agg, frame_id, confidence, current_time), LAMBDA a1 :
              IF duration_frames(Get(a1._current_candidate)) >= agg.stability_threshold
              THEN _finalize_gesture(_change_state(a1, "STABLE"))
              ELSE [agg |-> a1, out |-> None])
       ELSE With(_change_state(agg, "TRANSITIONING"), LAMBDA a1 :
              IF duration_frames(Get(a1._current_candidate)) >= agg.stability_threshold \div 2
              THEN With(_finalize_gesture(a1), LAMBDA finalized :
                     [agg |-> _start_candidate(finalized.agg, label, frame.gesture_type,
                                               frame_id, current_time),
                      out |-> finalized.out])
              ELSE [agg |-> _start_candidate(a1, label, frame.gesture_type,
                                             frame_id, current_time),
                    out |-> None])
  ELSE IF agg._state = "STABLE"
  THEN IF IsSome(agg._current_candidate) /\ label = Get(agg._current_candidate).label
       THEN [agg |-> _update_candidate(agg, frame_id, confidence, current_time), out |-> None]
       ELSE [agg |-> _start_candidate(_change_state(agg, "TRACKING"), label,
                                      frame.gesture_type, frame_id, current_time),
             out |-> None]
  ELSE \* TRANSITIONING
       IF IsSome(agg._current_candidate) /\ label = Get(agg._current_candidate).label
       THEN [agg |-> _change_state(_update_candidate(agg, frame_id, confidence, current_time),
                                   "TRACKING"),
             out |-> None]
       ELSE [agg |-> agg, out |-> None]

\* TemporalAggregator.process_frame: [agg, out]
process_frame(agg, frame, current_time) ==
  IF ~frame.hand_detected
  THEN With([agg EXCEPT !._frame_count = @ + 1, !._no_hand_count = @ + 1], LAMBDA a1 :
         IF /\ a1._state = "TRACKING" /\ IsSome(a1._current_candidate)
            /\ a1._no_hand_count > a1.transition_frames
         THEN _finalize_gesture(a1)
         ELSE IF a1._no_hand_count > a1.window_size \div 2
         THEN [agg |-> _change_state(a1, "IDLE"), out |-> None]
         ELSE [agg |-> a1, out |-> None])
  ELSE With([agg EXCEPT !._frame_count = @ + 1,
                        !._no_hand_count = 0,
                        !._prediction_history =
                           IF /\ IsSome(frame.predicted_label)
                              /\ Get(frame.predicted_label) # <<>>
                              /\ RLe(agg.min_confidence, frame.confidence)
                           THEN deque_append(@, <<Get(frame.predicted_label),
                                                  frame.confidence>>, agg.window_size)
                           ELSE @], LAMBDA a2 :
         With(_perform_voting(a2._prediction_history), LAMBDA vote :
           IF ~IsSome(vote[1]) THEN [agg |-> a2, out |-> None]
           ELSE _update_state(a2, Get(vote[1]), vote[2], frame, a2._frame_count,
                              current_time)))

\* force_finalize without its two-frame minimum
force_finalize_any(agg) ==
  IF IsSome(agg._current_candidate) THEN _finalize_gesture(agg)
  ELSE [agg |-> agg, out |-> None]

\* TemporalAggregator.force_finalize: [agg, out]
force_finalize(agg) ==
  IF IsSome(agg._current_candidate) /\ duration_frames(Get(agg._current_candidate)) >= 2
  THEN _finalize_gesture(agg)
  ELSE [agg |-> agg, out |-> None]

\* TemporalAggregator.clear
TemporalAggregator_clear(agg) ==
  [agg EXCEPT !._prediction_history = <<>>,
              !._state = "IDLE",
              !._current_candidate = None,
              !._frame_count = 0,
              !._no_hand_count = 0]


(***************************************************************************)
(* The aggregator with a gesture-recognized callback that calls            *)
(* force_finalize(): the callback runs before _finalize_gesture resets the *)
(* candidate.  n is the number of times the host's callback still          *)
(* re-enters; the operators return [agg, emitted], emitted the gestures    *)
(* handed to the callback, in order.                                       *)
(***************************************************************************)
RECURSIVE _finalize_gesture_reentrant(_, _)
\* TemporalAggregator._finalize_gesture, the callback re-entering
_finalize_gesture_reentrant(agg, n) ==
  IF ~IsSome(agg._current_candidate) THEN [agg |-> agg, emitted |-> <<>>]
  ELSE With(CandidateGesture(Get(agg._current_candidate)), LAMBDA gesture :
       With([agg EXCEPT !._total_gestures_recognized = @ + 1,
                        !._last_stable_gesture = Some(gesture)], LAMBDA a1 :
       With(IF n = 0 THEN [agg |-> a1, emitted |-> <<>>]
            ELSE IF duration_frames(Get(a1._current_candidate)) >= 2
            THEN _finalize_gesture_reentrant(a1, n - 1)
            ELSE [agg |-> a1, emitted |-> <<>>], LAMBDA callback :
         [agg |-> [callback.agg EXCEPT !._current_candidate = None],
          emitted |-> <<gesture>> \o callback.emitted])))

\* TemporalAggregator.force_finalize, the callback re-entering
force_finalize_reentrant(agg, n) ==
  IF IsSome(agg._current_candidate) /\ duration_frames(Get(agg._current_candidate)) >= 2
  THEN _finalize_gesture_reentrant(agg, n)
  ELSE [agg |-> agg, emitted |-> <<>>]

\* TemporalAggregator._update_state, the callback re-entering
_update_state_reentrant(agg, label, confidence, frame, frame_id, current_time, n) ==
  IF agg._state = "IDLE"
  THEN [agg |-> _change_state(_start_candidate(agg, label, frame.gesture_type,
                                               frame_id, current_time), "TRACKING"),
        emitted |-> <<>>]
  ELSE IF agg._state = "TRACKING"
  THEN IF ~IsSome(agg._current_candidate)
       THEN [agg |-> _start_candidate(agg, label, frame.gesture_type, frame_id, current_time),
             emitted |-> <<>>]
       ELSE IF label = Get(agg._current_candidate).label
       THEN With(_update_candidate(agg, frame_id, confidence, current_time), LAMBDA a1 :
              IF duration_frames(Get(a1._current_candidate)) >= agg.stability_threshold
              THEN _finalize_gesture_reentrant(_change_state(a1, "STABLE"), n)
              ELSE [agg |-> a1, emitted |-> <<>>])
       ELSE With(_change_state(agg, "TRANSITIONING"), LAMBDA a1 :
              IF duration_frames(Get(a1._current_candidate)) >= agg.stability_threshold \div 2
              THEN With(_finalize_gesture_reentrant(a1, n), LAMBDA finalized :
                     [agg |-> _start_candidate(finalized.agg, label, frame.gesture_type,
                                               frame_id, current_time),
                      emitted |-> finalized.emitted])
              ELSE [agg |-> _start_candidate(a1, label, frame.gesture_type,
                                             frame_id, current_time),
                    emitted |-> <<>>])
  ELSE IF agg._state = "STABLE"
  THEN IF IsSome(agg._current_candidate) /\ label = Get(agg._current_candidate).label
       THEN [agg |-> _update_candidate(agg, frame_id, confidence, current_time),
             emitted |-> <<>>]
       ELSE [agg |-> _start_candidate(_change_state(agg, "TRACKING"), label,
                                      frame.gesture_type, frame_id, current_time),
             emitted |-> <<>>]
  ELSE \* TRANSITIONING
       IF IsSome(agg._current_candidate) /\ label = Get(agg._current_candidate).label
       THEN [agg |-> _change_state(_update_candidate(agg, frame_id, confidence, current_time),
                                   "TRACKING"),
             emitted |-> <<>>]
       ELSE [agg |-> agg, emitted |-> <<>>]

\* TemporalAggregator.process_frame, the callback re-entering
process_frame_reentrant(agg, frame, current_time, n) ==
  IF ~frame.hand_detected
  THEN With([agg EXCEPT !._frame_count = @ + 1, !._no_hand_count = @ + 1], LAMBDA a1 :
         IF /\ a1._state = "TRACKING" /\ IsSome(a1._current_candidate)
            /\ a1._no_hand_count > a1.transition_frames
         THEN _finalize_gesture_reentrant(a1, n)
         ELSE IF a1._no_hand_count > a1.window_size \div 2
         THEN [agg |-> _change_state(a1, "IDLE"), emitted |-> <<>>]
         ELSE [agg |-> a1, emitted |-> <<>>])
  ELSE With([agg EXCEPT !._frame_count = @ + 1,
                        !._no_hand_count = 0,
                        !._prediction_history =
                           IF /\ IsSome(frame.predicted_label)
                              /\ Get(frame.predicted_label) # <<>>
                              /\ RLe(agg.min_confidence, frame.confidence)
                           THEN deque_append(@, <<Get(frame.predicted_label),
                                                  frame.confidence>>, agg.window_size)
                           ELSE @], LAMBDA a2 :
         With(_perform_voting(a2._prediction_history), LAMBDA vote :
           IF ~IsSome(vote[1]) THEN [agg |-> a2, emitted |-> <<>>]
           ELSE _update_state_reentrant(a2, Get(vote[1]), vote[2], frame, a2._frame_count,
                                        current_time, n)))
(***************************************************************************)
(* ContinuousSentenceBuilder and SignLanguagePipeline                      *)
(* (src/core/sentence_constructor.py, src/core/pipeline.py)                *)
(*                                                                         *)
(* A pipeline is the record [config, aggregator, constructor, _state,      *)
(* _frame_id, _last_gesture_time, events]: constructor is                  *)
(* sentence_builder.constructor, and events lists the host's four          *)
(* callbacks in the order they fire.                                       *)
(***************************************************************************)
\* transition_frames: int = 3 (the pipeline does not pass it)
DefaultTransitionFrames == 3

\* PipelineConfig(...)
PipelineConfig(aggregation_window, stability_threshold, min_confidence, word_timeout, sentence_timeout, auto_translate_enabled) ==
  [aggregation_window |-> aggregation_window,
   stability_threshold |-> stability_threshold,
   min_confidence |-> min_confidence,
   word_timeout |-> word_timeout,
   sentence_timeout |-> sentence_timeout,
   auto_translate_enabled |-> auto_translate_enabled]

\* PipelineState()
PipelineState ==
  [mode |-> "IDLE", is_processing |-> FALSE, frames_processed |-> 0,
   gestures_recognized |-> 0, current_text |-> <<>>, current_preview |-> <<>>,
   last_gesture |-> None, last_confidence |-> RZero,
   start_time |-> 0, last_update_time |-> 0]

\* ContinuousSentenceBuilder.__init__: the constructor it wraps
ContinuousSentenceBuilder ==
  SentenceConstructor("CONTINUOUS", DefaultWordTimeout, DefaultSentenceTimeout)

\* SignLanguagePipeline.__init__
SignLanguagePipeline(config) ==
  [config |-> config,
   aggregator |-> TemporalAggregator(config.aggregation_window, config.stability_threshold,
                                     config.min_confidence, DefaultTransitionFrames),
   constructor |-> ContinuousSentenceBuilder,
   _state |-> PipelineState,
   _frame_id |-> 0,
   _last_gesture_time |-> 0,
   events |-> <<>>]

Event(cb, arg) == [cb |-> cb, arg |-> arg]
Fire(p, cb, arg) == [p EXCEPT !.events = Append(@, Event(cb, arg))]

\* SignLanguagePipeline._notify_state_change
_notify_state_change(p) == Fire(p, "state_changed", <<p._state>>)

\* SignLanguagePipeline._handle_text_updated
_handle_text_updated(p, text, preview) ==
  Fire([p EXCEPT !._state.current_text = text, !._state.current_preview = preview],
       "text_updated", <<text, preview>>)

\* SignLanguagePipeline._handle_sentence_complete
_handle_sentence_complete(p, result) == Fire(p, "translation_complete", <<result>>)

\* SignLanguagePipeline._update_state_text
_update_state_text(p) ==
  With(_update_text(p.constructor), LAMBDA sc :
    [p EXCEPT !._state.current_text = sc._formatted_text,
              !._state.current_preview = get_preview(sc),
              !.constructor = sc])

\* ContinuousSentenceBuilder.add_gesture, with the pipeline's callbacks
ContinuousSentenceBuilder_add_gesture(p, gesture, t) ==
  With(add_gesture(p.constructor, gesture, t), LAMBDA sc :
    IF sc._formatted_text # <<>>
    THEN _handle_text_updated([p EXCEPT !.constructor = sc], sc._formatted_text,
                              get_preview(sc))
    ELSE [p EXCEPT !.constructor = sc])

\* finalize announcing every sentence, empty ones too
ContinuousSentenceBuilder_finalize_always(p, t) ==
  With(finalize_sentence(p.constructor, t), LAMBDA sc :
    With(TranslationResult(sc, t), LAMBDA result :
      [p |-> _handle_sentence_complete([p EXCEPT !.constructor = sc], result),
       value |-> result]))

\* ContinuousSentenceBuilder.finalize: [p, value], the pipeline afterwards and
\* the TranslationResult returned
ContinuousSentenceBuilder_finalize(p, t) ==
  With(finalize_sentence(p.constructor, t), LAMBDA sc :
    With(TranslationResult(sc, t), LAMBDA result :
      [p |-> IF result.text # <<>>
             THEN _handle_sentence_complete([p EXCEPT !.constructor = sc], result)
             ELSE [p EXCEPT !.constructor = sc],
       value |-> result]))

\* ContinuousSentenceBuilder.check_timeouts
check_timeouts(p, t) ==
  IF check_timeout(p.constructor, t)[2] THEN ContinuousSentenceBuilder_finalize(p, t).p
  ELSE IF check_timeout(p.constructor, t)[1]
  THEN With(_update_text(_finalize_word(p.constructor, t)), LAMBDA sc :
         IF Len(sc._words) > Len(p.constructor._words)
         THEN _handle_text_updated([p EXCEPT !.constructor = sc], get_current_text(sc),
                                   get_preview(sc))
         ELSE [p EXCEPT !.constructor = sc])
  ELSE p

\* _handle_recognized_gesture without counting the gesture
_handle_recognized_gesture_uncounted(p, gesture, t) ==
  With(IF is_word_gesture(gesture.label)
       THEN With(get_sign_by_gesture(gesture.label), LAMBDA sign :
              [gesture EXCEPT !.is_word_level = TRUE,
                              !.semantic_meaning =
                                 IF IsSome(sign) THEN Some(Get(sign).text) ELSE @])
       ELSE gesture, LAMBDA g :
    _update_state_text(Fire(
      ContinuousSentenceBuilder_add_gesture(
        [p EXCEPT !._last_gesture_time = t], g, t),
      "gesture_recognized", <<g>>)))

\* SignLanguagePipeline._handle_recognized_gesture
_handle_recognized_gesture(p, gesture, t) ==
  With(IF is_word_gesture(gesture.label)
       THEN With(get_sign_by_gesture(gesture.label), LAMBDA sign :
              [gesture EXCEPT !.is_word_level = TRUE,
                              !.semantic_meaning =
                                 IF IsSome(sign) THEN Some(Get(sign).text) ELSE @])
       ELSE gesture, LAMBDA g :
    _update_state_text(Fire(
      ContinuousSentenceBuilder_add_gesture(
        [p EXCEPT !._state.gestures_recognized = @ + 1, !._last_gesture_time = t], g, t),
      "gesture_recognized", <<g>>)))

\* the aggregator's gesture-recognized callback, when it emitted
Recognized(p, out, t) == IF IsSome(out) THEN _handle_recognized_gesture(p, Get(out), t) ELSE p

\* SignLanguagePipeline.clear
clear(p) ==
  [p EXCEPT !.aggregator = TemporalAggregator_clear(@),
            !.constructor = SentenceConstructor_clear(@),
            !._state = PipelineState,
            !._frame_id = 0,
            !._last_gesture_time = 0]

\* SignLanguagePipeline.start
start(p, mode, t) ==
  _notify_state_change([clear(p) EXCEPT !._state.mode = mode,
                                        !._state.is_processing = TRUE,
                                        !._state.start_time = t])

\* SignLanguagePipeline.stop
stop(p) ==
  _notify_state_change([p EXCEPT !._state.is_processing = FALSE, !._state.mode = "IDLE"])

\* SignLanguagePipeline.stop_and_translate: the pipeline just before the
\* sentence is finalized, any in-flight candidate forced out
stop_and_translate_forced(p, t) ==
  With(force_finalize(p.aggregator), LAMBDA r :
    Recognized([p EXCEPT !.aggregator = r.agg], r.out, t))

\* SignLanguagePipeline.stop_and_translate: [p, value], the pipeline afterwards
\* and the TranslationResult returned
stop_and_translate(p, t) ==
  With(ContinuousSentenceBuilder_finalize(stop_and_translate_forced(p, t), t), LAMBDA r :
    [p |-> _notify_state_change([r.p EXCEPT !._state.is_processing = FALSE,
                                            !._state.mode = "IDLE"]),
     value |-> r.value])

\* SignLanguagePipeline._check_auto_translate
_check_auto_translate(p, t) ==
  IF p._last_gesture_time = 0 THEN p
  ELSE IF t - p._last_gesture_time >= p.config.sentence_timeout THEN check_timeouts(p, t)
  ELSE p

\* SignLanguagePipeline.process_frame: [p, value], the pipeline afterwards and
\* the text returned
pipeline_process_frame(p, hand_detected, predicted_label, confidence, gesture_type, t) ==
  IF ~p._state.is_processing THEN [p |-> p, value |-> None]
  ELSE With(IsSome(predicted_label) /\ Get(predicted_label) # <<>> /\ RLt(RZero, confidence),
            LAMBDA has_prediction :
       With(process_frame(p.aggregator,
                          GestureFrame(hand_detected, predicted_label, confidence,
                                       gesture_type), t), LAMBDA recognized :
       With(Recognized([p EXCEPT !._frame_id = @ + 1,
                                 !._state.frames_processed = p._frame_id + 1,
                                 !._state.last_update_time = t,
                                 !._state.last_gesture =
                                    IF has_prediction THEN predicted_label ELSE @,
                                 !._state.last_confidence =
                                    IF has_prediction THEN confidence ELSE @,
                                 !.aggregator = recognized.agg],
                       recognized.out, t), LAMBDA p2 :
       With(IF p2.config.auto_translate_enabled /\ p2._state.mode = "LIVE_ACCUMULATE"
            THEN _check_auto_translate(p2, t)
            ELSE p2, LAMBDA p3 :
         [p |-> p3,
          value |-> IF IsSome(recognized.out) THEN Some(p3._state.current_text)
                    ELSE None]))))

\* process_gesture without its min_confidence guard
process_gesture_any_confidence(p, label, confidence, gesture_type, t) ==
  IF ~p._state.is_processing THEN [p |-> p, value |-> None]
  ELSE With(is_word_gesture(label), LAMBDA is_word_level :
       With(get_sign_by_gesture(label), LAMBDA sign :
       With(_handle_recognized_gesture(p,
              RecognizedGesture(label, gesture_type, confidence, t, t, 1, <<>>,
                                IF is_word_level /\ IsSome(sign) THEN Some(Get(sign).text)
                                ELSE None,
                                is_word_level), t), LAMBDA p1 :
         [p |-> p1, value |-> Some(p1._state.current_text)])))

\* process_gesture without its is_processing guard
process_gesture_unguarded(p, label, confidence, gesture_type, t) ==
  IF RLt(confidence, p.config.min_confidence) THEN [p |-> p, value |-> None]
  ELSE With(is_word_gesture(label), LAMBDA is_word_level :
       With(get_sign_by_gesture(label), LAMBDA sign :
       With(_handle_recognized_gesture(p,
              RecognizedGesture(label, gesture_type, confidence, t, t, 1, <<>>,
                                IF is_word_level /\ IsSome(sign) THEN Some(Get(sign).text)
                                ELSE None,
                                is_word_level), t), LAMBDA p1 :
         [p |-> p1, value |-> Some(p1._state.current_text)])))

\* SignLanguagePipeline.process_gesture: [p, value], the pipeline afterwards
\* and the text returned
process_gesture(p, label, confidence, gesture_type, t) ==
  IF ~p._state.is_processing THEN [p |-> p, value |-> None]
  ELSE IF RLt(confidence, p.config.min_confidence) THEN [p |-> p, value |-> None]
  ELSE With(is_word_gesture(label), LAMBDA is_word_level :
       With(get_sign_by_gesture(label), LAMBDA sign :
       With(_handle_recognized_gesture(p,
              RecognizedGesture(label, gesture_type, confidence, t, t, 1, <<>>,
                                IF is_word_level /\ IsSome(sign) THEN Some(Get(sign).text)
                                ELSE None,
                                is_word_level), t), LAMBDA p1 :
         [p |-> p1, value |-> Some(p1._state.current_text)])))

\* SignLanguagePipeline.insert_space
pipeline_insert_space(p, t) ==
  _update_state_text([p EXCEPT !.constructor = insert_space(@, t)])

\* SignLanguagePipeline.delete_last
delete_last(p, delete_word) ==
  _update_state_text([p EXCEPT !.constructor =
     IF delete_word THEN remove_last_word(@) ELSE remove_last_letter(@)])

(***************************************************************************)
(* ContinuousSentenceBuilder on its own, all three callbacks set           *)
(* (src/core/sentence_constructor.py)                                      *)
(*                                                                         *)
(* A builder is the record [constructor, events]: events lists the         *)
(* callbacks fired, in order.                                              *)
(***************************************************************************)
\* ContinuousSentenceBuilder() with set_on_text_updated, set_on_word_completed
\* and set_on_sentence_completed called
Builder == [constructor |-> ContinuousSentenceBuilder, events |-> <<>>]

\* ContinuousSentenceBuilder.finalize: [b, value]
Builder_finalize(b, t) ==
  With(finalize_sentence(b.constructor, t), LAMBDA sc :
    With(TranslationResult(sc, t), LAMBDA result :
      [b |-> IF result.text # <<>>
             THEN Fire([b EXCEPT !.constructor = sc], "sentence_completed", <<result>>)
             ELSE [b EXCEPT !.constructor = sc],
       value |-> result]))

\* ContinuousSentenceBuilder.add_gesture
Builder_add_gesture(b, gesture, t) ==
  With(add_gesture(b.constructor, gesture, t), LAMBDA sc :
    With(IF Len(sc._words) > Len(b.constructor._words)
         THEN Fire([b EXCEPT !.constructor = sc], "word_completed", <<Last(sc._words)>>)
         ELSE [b EXCEPT !.constructor = sc], LAMBDA b1 :
      IF sc._formatted_text # <<>>
      THEN Fire(b1, "text_updated", <<sc._formatted_text, get_preview(sc)>>)
      ELSE b1))

\* ContinuousSentenceBuilder.check_timeouts
Builder_check_timeouts(b, t) ==
  With(check_timeout(b.constructor, t), LAMBDA timeouts :
    IF timeouts[2] THEN Builder_finalize(b, t).b
    ELSE IF timeouts[1]
    THEN With(_update_text(_finalize_word(b.constructor, t)), LAMBDA sc :
           IF Len(sc._words) > Len(b.constructor._words)
           THEN Fire(Fire([b EXCEPT !.constructor = sc],
                          "word_completed", <<Last(sc._words)>>),
                     "text_updated", <<get_current_text(sc), get_preview(sc)>>)
           ELSE [b EXCEPT !.constructor = sc])
    ELSE b)

(***************************************************************************)
(* TextToSignTranslator (src/core/text_to_sign.py)                         *)
(*                                                                         *)
(* A SignOutput keeps sign_id, text, output_type, sign_definition and      *)
(* letters; an id is the sequence of its parts, "letter_a" being           *)
(* <<"letter", "a">>.                                                      *)
(***************************************************************************)
\* SignOutput(...)
SignOutput(sign_id, text, output_type, sign_definition, letters) ==
  [sign_id |-> sign_id, text |-> text, output_type |-> output_type,
   sign_definition |-> sign_definition, letters |-> letters]

\* SignSequenceResult(original_text=text)
SignSequenceResult(original_text) ==
  [original_text |-> original_text, signs |-> <<>>,
   word_count |-> 0, sign_count |-> 0, fingerspelled_count |-> 0]

\* self._phrase_patterns, in dict order
_phrase_patterns ==
  << << <<"t","h","a","n","k"," ","y","o","u">>,
        << <<"t","h","a","n","k","_","y","o","u">> >> >>,
     << <<"i"," ","l","o","v","e"," ","y","o","u">>,
        << <<"i","_","l","o","v","e","_","y","o","u">> >> >>,
     << <<"h","o","w"," ","a","r","e"," ","y","o","u">>,
        << <<"h","o","w">>, <<"y","o","u">> >> >>,
     << <<"n","i","c","e"," ","t","o"," ","m","e","e","t"," ","y","o","u">>,
        << <<"n","i","c","e">>, <<"m","e","e","t">>, <<"y","o","u">> >> >>,
     << <<"m","y"," ","n","a","m","e"," ","i","s">>,
        << <<"m","y">>, <<"n","a","m","e">> >> >>,
     << <<"w","h","a","t"," ","i","s"," ","y","o","u","r"," ","n","a","m","e">>,
        << <<"w","h","a","t">>, <<"y","o","u","r">>, <<"n","a","m","e">> >> >> >>

\* str.strip()
RECURSIVE lstrip(_)
lstrip(text) ==
  IF text # <<>> /\ isspace(Head(text)) THEN lstrip(Tail(text)) ELSE text
RECURSIVE rstrip(_)
rstrip(text) ==
  IF text # <<>> /\ isspace(text[Len(text)])
  THEN rstrip(SubSeq(text, 1, Len(text) - 1)) ELSE text
strip(text) == rstrip(lstrip(text))

\* str.startswith
startswith(text, prefix) ==
  Len(prefix) <= Len(text) /\ SubSeq(text, 1, Len(prefix)) = prefix

\* str.isdigit() of a token
str_isdigit(token) == token # <<>> /\ \A i \in 1..Len(token) : isdigit(token[i])

\* str(i) for the positions of a word
str_int(i) ==
  IF i < 10 THEN <<DigitChars[i + 1]>>
  ELSE <<DigitChars[(i \div 10) + 1], DigitChars[(i % 10) + 1]>>

\* TextToSignTranslator._normalize_text
_normalize_text(text) ==
  With(join(split(text)), LAMBDA joined :
    strip([i \in 1..Len(joined) |->
             IF isword(joined[i]) \/ isspace(joined[i]) \/ joined[i] = "'"
             THEN joined[i] ELSE " "]))

\* TextToSignTranslator._tokenize
_tokenize(text) == split(text)

\* TextToSignTranslator._check_phrase_match
_check_phrase_match(text) ==
  With({i \in 1..Len(_phrase_patterns) :
          \/ text = _phrase_patterns[i][1]
          \/ startswith(text, _phrase_patterns[i][1] \o <<" ">>)}, LAMBDA hits :
    IF hits = {} THEN None
    ELSE Some(_phrase_patterns[CHOOSE i \in hits : \A j \in hits : i <= j][2]))

\* TextToSignTranslator._lookup_word_sign
_lookup_word_sign(word) ==
  With(get_sign_by_text(word), LAMBDA sign_def :
    IF IsSome(sign_def) /\ Get(sign_def).category \in {"WORD", "PHRASE"}
    THEN Some(SignOutput(Get(sign_def).id, word, "WORD_SIGN", sign_def, <<>>))
    ELSE None)

\* _create_word_sign taking the phrase's label for the unit's text
_create_word_sign_labelled(sign_label) ==
  With(get_sign_by_gesture(sign_label), LAMBDA sign_def :
    IF IsSome(sign_def)
    THEN Some(SignOutput(Get(sign_def).id, sign_label, "WORD_SIGN", sign_def, <<>>))
    ELSE None)

\* TextToSignTranslator._create_word_sign
_create_word_sign(sign_label) ==
  With(get_sign_by_gesture(sign_label), LAMBDA sign_def :
    IF IsSome(sign_def)
    THEN Some(SignOutput(Get(sign_def).id, Get(sign_def).text, "WORD_SIGN", sign_def, <<>>))
    ELSE None)

\* TextToSignTranslator._create_number_sign, digit a one-character string
_create_number_sign(digit) ==
  With(get_sign_by_text(digit), LAMBDA sign_def :
    IF IsSome(sign_def)
    THEN SignOutput(Get(sign_def).id, digit, "NUMBER", sign_def, <<>>)
    ELSE SignOutput(<<"number">> \o digit, digit, "NUMBER", None, <<>>))

\* TextToSignTranslator._create_letter_sign
_create_letter_sign(letter) ==
  IF ~(Len(letter) = 1 /\ isalpha(letter[1])) THEN None
  ELSE Some(SignOutput(<<"letter", lowerc(letter[1])>>, upper(letter), "LETTER_SPELL",
                       get_sign_by_text(upper(letter)), <<>>))

\* the alphabetic characters of word.upper(), each a one-character string
RECURSIVE alpha_letters(_)
alpha_letters(word) ==
  IF word = <<>> THEN <<>>
  ELSE (IF isalpha(upperc(Head(word))) THEN << <<upperc(Head(word))>> >> ELSE <<>>)
       \o alpha_letters(Tail(word))

\* TextToSignTranslator._create_fingerspell
_create_fingerspell(word) ==
  SignOutput(<<"fingerspell">> \o lower(word), word, "FINGERSPELL", None,
             alpha_letters(word))

\* _create_fingerspell_expanded spelling the word as one bundled unit
_create_fingerspell_expanded_bundled(word) ==
  <<_create_fingerspell(word)>>

\* TextToSignTranslator._create_fingerspell_expanded: enumerate(word.upper())
\* from position i (1-based here, i - 1 in the sign_id)
RECURSIVE fingerspell_from(_, _)
fingerspell_from(word, i) ==
  IF i > Len(word) THEN <<>>
  ELSE (IF isalpha(upperc(word[i]))
        THEN <<SignOutput(<<"fingerspell">> \o lower(word) \o <<lowerc(upperc(word[i]))>>
                            \o str_int(i - 1),
                          <<upperc(word[i])>>, "LETTER_SPELL",
                          get_sign_by_text(<<upperc(word[i])>>),
                          << <<upperc(word[i])>> >>)>>
        ELSE <<>>)
       \o fingerspell_from(word, i + 1)
_create_fingerspell_expanded(word) ==
  fingerspell_from(word, 1)

\* the list of the signs that exist: [s for s in ... if s]
RECURSIVE present(_)
present(options) ==
  IF options = <<>> THEN <<>> ELSE Head(options) \o present(Tail(options))

\* translate: the body of "for token in tokens" for one token
translate_token(result, token, expand_fingerspelling) ==
  IF Len(token) = 1 /\ isalpha(token[1])
  THEN [result EXCEPT !.signs = @ \o _create_letter_sign(token)]
  ELSE IF str_isdigit(token)
  THEN [result EXCEPT !.signs =
          @ \o [i \in 1..Len(token) |-> _create_number_sign(<<token[i]>>)]]
  ELSE With(_lookup_word_sign(token), LAMBDA sign :
    IF IsSome(sign)
    THEN [result EXCEPT !.signs = @ \o sign, !.word_count = @ + 1]
    ELSE [result EXCEPT
            !.signs = @ \o (IF expand_fingerspelling
                            THEN _create_fingerspell_expanded(token)
                            ELSE <<_create_fingerspell(token)>>),
            !.fingerspelled_count = @ + 1])

RECURSIVE translate_tokens(_, _, _)
translate_tokens(result, tokens, expand_fingerspelling) ==
  IF tokens = <<>> THEN result
  ELSE translate_tokens(translate_token(result, Head(tokens), expand_fingerspelling),
                        Tail(tokens), expand_fingerspelling)

\* TextToSignTranslator.translate
translate(text, expand_fingerspelling) ==
  IF text = <<>> THEN SignSequenceResult(text)
  ELSE With(_normalize_text(text), LAMBDA normalized :
       With(_check_phrase_match(lower(normalized)), LAMBDA phrase_signs :
         IF IsSome(phrase_signs)
         THEN With(present([i \in 1..Len(Get(phrase_signs)) |->
                              _create_word_sign(Get(phrase_signs)[i])]), LAMBDA signs :
                [SignSequenceResult(text) EXCEPT
                   !.signs = signs, !.word_count = Len(Get(phrase_signs)),
                   !.sign_count = Len(signs)])
         ELSE With(translate_tokens(SignSequenceResult(text), _tokenize(normalized),
                                    expand_fingerspelling), LAMBDA result :
                [result EXCEPT !.sign_count = Len(result.signs)])))

\* translate_streaming yielding the units of the bundled translation
translate_streaming_bundled(text) == translate(text, FALSE)

\* TextToSignTranslator.translate_streaming: result = self.translate(text)
translate_streaming_result(text) == translate(text, TRUE)

\* the generator translate_streaming(text) returns: its body has not run
\* yet, value lists the units yielded so far
translate_streaming(text) ==
  [op |-> "translate_streaming", value |-> <<>>,
   pre |-> [text |-> text, result |-> None, done |-> FALSE]]

\* next() on the generator: the first call runs translate, every call
\* yields the next unit of result.signs or ends the generator
generator_next(gen) ==
  With(IF IsSome(gen.pre.result) THEN Get(gen.pre.result)
       ELSE translate_streaming_result(gen.pre.text), LAMBDA result :
    IF Len(gen.value) < Len(result.signs)
    THEN [gen EXCEPT !.value = Append(@, result.signs[Len(gen.value) + 1]),
                     !.pre.result = Some(result)]
    ELSE [gen EXCEPT !.pre.result = Some(result), !.pre.done = TRUE])
(***************************************************************************)
(* The state machines                                                      *)
(***************************************************************************)
VARIABLES
  aggregator,   \* a stand-alone TemporalAggregator
  constructor,  \* a stand-alone SentenceConstructor
  pipeline,     \* a SignLanguagePipeline with its aggregator and constructor
  log,          \* the calls made on the stand-alone object, oldest first
  script,       \* the inputs still to arrive, each with its delay
  session,      \* what the pipeline was fed and announced since the last start()
  call,         \* the last pipeline call: its name, what it returned, the state before
  now           \* time.time()

vars == <<aggregator, constructor, pipeline, log, script, session, call, now>>

NoCall == [op |-> "none", value |-> <<>>,
           pre |-> [is_processing |-> FALSE, mode |-> "IDLE", candidate |-> None,
                    gestures_recognized |-> 0, gesture_count |-> 0]]
NoSession == [mode |-> "IDLE", gestures |-> <<>>, clean |-> TRUE, edits |-> 0,
              sentences |-> <<>>]

(***************************************************************************)
(* SpecAggregator: frames fed to a TemporalAggregator                      *)
(***************************************************************************)
\* the demo's configuration and two short ones
AggregatorConfigs ==
  { [window_size |-> 10, stability_threshold |-> 3, min_confidence |-> <<1, 2>>,
     transition_frames |-> 3],
    [window_size |-> 4, stability_threshold |-> 2, min_confidence |-> <<1, 2>>,
     transition_frames |-> 1],
    [window_size |-> 2, stability_threshold |-> 2, min_confidence |-> <<1, 2>>,
     transition_frames |-> 1] }

\* the frames a caller may feed: no hand, A or B above the minimum
\* confidence, A below it
FrameInputs ==
  { GestureFrame(FALSE, None, RZero, "unknown"),
    GestureFrame(TRUE, Some(<<"A">>), <<1, 2>>, "static"),
    GestureFrame(TRUE, Some(<<"A">>), ROne, "static"),
    GestureFrame(TRUE, Some(<<"B">>), ROne, "static"),
    GestureFrame(TRUE, Some(<<"A">>), <<1, 4>>, "static") }

\* voted: the label _perform_voting gave in a call with the hand detected
AggEntry(op, frame, r) ==
  [op |-> op, frame |-> frame, out |-> r.out, state |-> r.agg._state,
   candidate |-> r.agg._current_candidate,
   voted |-> IF IsSome(frame) /\ Get(frame).hand_detected
             THEN _perform_voting(r.agg._prediction_history)[1] ELSE None]

InitNoPipeline ==
  /\ pipeline = SignLanguagePipeline(PipelineConfig(15, 5, <<1, 2>>, 3, 6, TRUE))
  /\ session = NoSession
  /\ call = NoCall

InitAggregator ==
  /\ aggregator \in { TemporalAggregator(c.window_size, c.stability_threshold,
                                         c.min_confidence, c.transition_frames) :
                      c \in AggregatorConfigs }
  /\ constructor = SentenceConstructor("HYBRID", DefaultWordTimeout, DefaultSentenceTimeout)
  /\ log = <<>>
  /\ script = <<>>
  /\ now = 1
  /\ InitNoPipeline

AggProcessFrame ==
  /\ Len(log) < MaxAggOps
  /\ \E frame \in FrameInputs :
       LET r == process_frame(aggregator, frame, now)
       IN /\ aggregator' = r.agg
          /\ log' = Append(log, AggEntry("process_frame", Some(frame), r))
  /\ UNCHANGED <<constructor, pipeline, script, session, call, now>>

AggForceFinalize ==
  /\ Len(log) < MaxAggOps
  /\ LET r == force_finalize(aggregator)
     IN /\ aggregator' = r.agg
        /\ log' = Append(log, AggEntry("force_finalize", None, r))
  /\ UNCHANGED <<constructor, pipeline, script, session, call, now>>

AggClear ==
  /\ Len(log) < MaxAggOps
  /\ aggregator' = TemporalAggregator_clear(aggregator)
  /\ log' = Append(log, AggEntry("clear", None,
                                 [agg |-> TemporalAggregator_clear(aggregator), out |-> None]))
  /\ UNCHANGED <<constructor, pipeline, script, session, call, now>>

NextAggregator == AggProcessFrame \/ AggForceFinalize \/ AggClear

SpecAggregator == InitAggregator /\ [][NextAggregator]_vars

(***************************************************************************)
(* SpecSteady: any frames, then the same sign held for good                *)
(*                                                                         *)
(* script holds the frames of the held sign still to arrive; before the    *)
(* first of them is processed any frames may be.                           *)
(***************************************************************************)
\* the frames of a held sign: hand detected, confidence >= min_confidence
SteadyFrames ==
  { frame \in FrameInputs : frame.hand_detected /\ RLe(<<1, 2>>, frame.confidence) }

InitSteady ==
  /\ aggregator \in { TemporalAggregator(c.window_size, c.stability_threshold,
                                         c.min_confidence, c.transition_frames) :
                      c \in AggregatorConfigs }
  /\ constructor = SentenceConstructor("HYBRID", DefaultWordTimeout, DefaultSentenceTimeout)
  /\ log = <<>>
  /\ script \in { [k \in 1..MaxSteady |-> frame] : frame \in SteadyFrames }
  /\ now = 1
  /\ InitNoPipeline

\* process_frame with any frame, before the sign is held
StBefore ==
  /\ Len(script) = MaxSteady
  /\ Len(log) < MaxBeforeFrames
  /\ \E frame \in FrameInputs :
       \E r \in {process_frame(aggregator, frame, now)} :
         /\ aggregator' = r.agg
         /\ log' = Append(log, AggEntry("process_frame", Some(frame), r))
  /\ UNCHANGED <<constructor, pipeline, script, session, call, now>>

\* process_frame with the next frame of the held sign
StSteady ==
  /\ script # <<>>
  /\ \E r \in {process_frame(aggregator, Head(script), now)} :
       /\ aggregator' = r.agg
       /\ log' = Append(log, AggEntry("process_frame", Some(Head(script)), r))
  /\ script' = Tail(script)
  /\ UNCHANGED <<constructor, pipeline, session, call, now>>

NextSteady == StBefore \/ StSteady

\* the next frame of the held sign arrives
StArrives == script # <<>> /\ script' = Tail(script)

\* the frames of the held sign keep arriving
SpecSteady == InitSteady /\ [][NextSteady]_vars /\ WF_script(StArrives)

(***************************************************************************)
(* SpecReentry: a TemporalAggregator whose gesture-recognized callback     *)
(* calls force_finalize(), up to MaxReentries times inside one another     *)
(***************************************************************************)
RnEntry(op, r) ==
  [op |-> op, emitted |-> r.emitted, state |-> r.agg._state,
   candidate |-> r.agg._current_candidate]

RnProcessFrame ==
  /\ Len(log) < MaxReentryOps
  /\ \E frame \in FrameInputs : \E n \in 0..MaxReentries :
       \E r \in {process_frame_reentrant(aggregator, frame, now, n)} :
         /\ aggregator' = r.agg
         /\ log' = Append(log, RnEntry("process_frame", r))
  /\ UNCHANGED <<constructor, pipeline, script, session, call, now>>

RnForceFinalize ==
  /\ Len(log) < MaxReentryOps
  /\ \E n \in 0..MaxReentries :
       \E r \in {force_finalize_reentrant(aggregator, n)} :
         /\ aggregator' = r.agg
         /\ log' = Append(log, RnEntry("force_finalize", r))
  /\ UNCHANGED <<constructor, pipeline, script, session, call, now>>

NextReentry == RnProcessFrame \/ RnForceFinalize

SpecReentry == InitAggregator /\ [][NextReentry]_vars

(***************************************************************************)
(* SpecConstructor: gestures added to a SentenceConstructor                *)
(***************************************************************************)
Input(label, confidence, delay) == [label |-> label, confidence |-> confidence, delay |-> delay]

\* one letter after the other, none delayed
RECURSIVE Spell(_)
Spell(letters) ==
  IF letters = <<>> THEN <<>>
  ELSE <<Input(<<Head(letters)>>, <<17, 20>>, 0)>> \o Spell(Tail(letters))

\* the letters of every key of the pattern table
PatternScripts == { Spell(_word_patterns[i][1]) : i \in 1..Len(_word_patterns) }

\* two or three letters, the later ones right away, at the word timeout or
\* past it
PairLabels == { <<"A">>, <<"B">>, <<"H">>, <<"I">>, <<"b">> }
PairDelays == { 0, DefaultWordTimeout, DefaultWordTimeout + 1 }
PairScripts ==
  { << Input(x, <<17, 20>>, 0), Input(y, <<3, 5>>, d) >> :
      <<x, y, d>> \in PairLabels \X PairLabels \X PairDelays }

\* two letters and then a delimiter label, a control label or an unknown
\* label, right away or past the word timeout
BoundaryLabels ==
  { <<"W", "A", "V", "E">>, <<"S", "P", "A", "C", "E">>, <<"_">>, <<"P", "A", "U", "S", "E">>, <<" ">>,
    <<"b", "a", "c", "k", "s", "p", "a", "c", "e">>, <<"w", "a", "v", "e">> }
BoundaryScripts ==
  { << Input(<<"H">>, <<17, 20>>, 0), Input(<<"E">>, <<17, 20>>, 0), Input(x, <<3, 5>>, d) >> :
      <<x, d>> \in BoundaryLabels \X { 0, DefaultWordTimeout + 1 } }

ConstructorScripts == PatternScripts \cup PairScripts \cup BoundaryScripts

InitConstructor ==
  /\ constructor = SentenceConstructor("HYBRID", DefaultWordTimeout, DefaultSentenceTimeout)
  /\ aggregator = TemporalAggregator(15, 5, <<1, 2>>, 3)
  /\ log = <<>>
  /\ script \in ConstructorScripts
  /\ now = 1
  /\ InitNoPipeline

ScEntry(op, label, confidence, at) ==
  [op |-> op, label |-> label, confidence |-> confidence, at |-> at]

Edits(l) == Len(SelectSeq(l, LAMBDA e : e.op # "add_gesture"))

\* the caller's RecognizedGesture for an input
InputGesture(input, t) ==
  RecognizedGesture(input.label, "static", input.confidence, t, t, 5, <<>>, None, FALSE)

ScAddGesture ==
  /\ script # <<>>
  /\ LET t == now + Head(script).delay
     IN /\ now' = t
        /\ constructor' = add_gesture(constructor, InputGesture(Head(script), t), t)
        /\ log' = Append(log, ScEntry("add_gesture", Head(script).label,
                                      Head(script).confidence, t))
  /\ script' = Tail(script)
  /\ UNCHANGED <<aggregator, pipeline, session, call>>

ScEdit(op, after) ==
  /\ Edits(log) < MaxEdits
  /\ constructor' = after
  /\ log' = Append(log, ScEntry(op, <<>>, RZero, now))
  /\ UNCHANGED <<aggregator, pipeline, script, session, call, now>>

ScInsertSpace == ScEdit("insert_space", insert_space(constructor, now))
ScRemoveLastWord == ScEdit("remove_last_word", remove_last_word(constructor))
ScRemoveLastLetter == ScEdit("remove_last_letter", remove_last_letter(constructor))
ScFinalizeSentence == ScEdit("finalize_sentence", finalize_sentence(constructor, now))
ScClear == ScEdit("clear", SentenceConstructor_clear(constructor))

NextConstructor ==
  \/ ScAddGesture
  \/ ScInsertSpace
  \/ ScRemoveLastWord
  \/ ScRemoveLastLetter
  \/ ScFinalizeSentence
  \/ ScClear

SpecConstructor == InitConstructor /\ [][NextConstructor]_vars

(***************************************************************************)
(* SpecTranslator: texts given to a TextToSignTranslator                   *)
(*                                                                         *)
(* script holds the translate() calls still to make, log the calls made    *)
(* with the result each returned, call the generator of a                  *)
(* translate_streaming() call with the units it has yielded.               *)
(***************************************************************************)
\* the texts given to translate: the vocabulary's words, the phrase patterns,
\* unknown words, letters, digits, punctuation and blanks
TranslatorTexts ==
  {
    <<"H", "e", "l", "l", "o">>,
    <<"h", "e", "l", "l", "o">>,
    <<"G", "o", "o", "d", "b", "y", "e">>,
    <<"g", "o", "o", "d", "b", "y", "e">>,
    <<"T", "h", "a", "n", "k", " ", "y", "o", "u">>,
    <<"t", "h", "a", "n", "k", " ", "y", "o", "u">>,
    <<"P", "l", "e", "a", "s", "e">>,
    <<"p", "l", "e", "a", "s", "e">>,
    <<"S", "o", "r", "r", "y">>,
    <<"s", "o", "r", "r", "y">>,
    <<"Y", "e", "s">>,
    <<"y", "e", "s">>,
    <<"N", "o">>,
    <<"n", "o">>,
    <<"I">>,
    <<"i">>,
    <<"Y", "o", "u">>,
    <<"y", "o", "u">>,
    <<"W", "a", "n", "t">>,
    <<"w", "a", "n", "t">>,
    <<"N", "e", "e", "d">>,
    <<"n", "e", "e", "d">>,
    <<"H", "e", "l", "p">>,
    <<"h", "e", "l", "p">>,
    <<"S", "t", "o", "p">>,
    <<"s", "t", "o", "p">>,
    <<"L", "o", "v", "e">>,
    <<"l", "o", "v", "e">>,
    <<"I", " ", "l", "o", "v", "e", " ", "y", "o", "u">>,
    <<"i", " ", "l", "o", "v", "e", " ", "y", "o", "u">>,
    <<"W", "h", "a", "t", "?">>,
    <<"w", "h", "a", "t", "?">>,
    <<"W", "h", "e", "r", "e", "?">>,
    <<"w", "h", "e", "r", "e", "?">>,
    <<"H", "o", "w", "?">>,
    <<"h", "o", "w", "?">>,
    <<"N", "a", "m", "e">>,
    <<"n", "a", "m", "e">>,
    <<"W", "a", "t", "e", "r">>,
    <<"w", "a", "t", "e", "r">>,
    <<"F", "o", "o", "d">>,
    <<"f", "o", "o", "d">>,
    <<"T", "h", "a", "n", "k", " ", "Y", "o", "u">>,
    <<"t", "h", "a", "n", "k", " ", "y", "o", "u", " ", "f", "r", "i", "e", "n", "d">>,
    <<"I", " ", "L", "o", "v", "e", " ", "Y", "o", "u">>,
    <<"i", " ", "l", "o", "v", "e", " ", "y", "o", "u", " ", "f", "r", "i", "e", "n", "d">>,
    <<"h", "o", "w", " ", "a", "r", "e", " ", "y", "o", "u">>,
    <<"H", "o", "w", " ", "A", "r", "e", " ", "Y", "o", "u">>,
    <<"h", "o", "w", " ", "a", "r", "e", " ", "y", "o", "u", " ", "f", "r", "i", "e", "n", "d">>,
    <<"n", "i", "c", "e", " ", "t", "o", " ", "m", "e", "e", "t", " ", "y", "o", "u">>,
    <<"N", "i", "c", "e", " ", "T", "o", " ", "M", "e", "e", "t", " ", "Y", "o", "u">>,
    <<"n", "i", "c", "e", " ", "t", "o", " ", "m", "e", "e", "t", " ", "y", "o", "u", " ", "f", "r", "i", "e", "n", "d">>,
    <<"m", "y", " ", "n", "a", "m", "e", " ", "i", "s">>,
    <<"M", "y", " ", "N", "a", "m", "e", " ", "I", "s">>,
    <<"m", "y", " ", "n", "a", "m", "e", " ", "i", "s", " ", "f", "r", "i", "e", "n", "d">>,
    <<"w", "h", "a", "t", " ", "i", "s", " ", "y", "o", "u", "r", " ", "n", "a", "m", "e">>,
    <<"W", "h", "a", "t", " ", "I", "s", " ", "Y", "o", "u", "r", " ", "N", "a", "m", "e">>,
    <<"w", "h", "a", "t", " ", "i", "s", " ", "y", "o", "u", "r", " ", "n", "a", "m", "e", " ", "f", "r", "i", "e", "n", "d">>,
    <<>>,
    <<"H", "E", "L", "L", "O">>,
    <<"H", "e", "l", "l", "o", " ", "f", "r", "i", "e", "n", "d">>,
    <<"M", "y", " ", "n", "a", "m", "e", " ", "i", "s", " ", "J", "o", "h", "n">>,
    <<"X", "y", "z", "z", "y">>,
    <<"x", "y", "z", "z", "y">>,
    <<"Q", "i">>,
    <<"H", "e", "l", "l", "o", " ", "X", "y", "z", "z", "y">>,
    <<"X", "y", "z", "z", "y", " ", "h", "e", "l", "l", "o", " ", "B", "o", "b">>,
    <<"c", "a", "l", "l", " ", "4", "2", " ", "n", "o", "w">>,
    <<"7">>,
    <<"2", "0", "2", "4">>,
    <<"a">>,
    <<"I", " ", "a", "m", " ", "B", "o", "b">>,
    <<"H", "o", "w", " ", "a", "r", "e", " ", "y", "o", "u", "?">>,
    <<"T", "h", "a", "n", "k", " ", "y", "o", "u", "!">>,
    <<" ", " ", "h", "e", "l", "l", "o", " ", " ", " ", "w", "o", "r", "l", "d", " ", " ">>,
    <<"d", "o", "n", "'", "t", " ", "s", "t", "o", "p">>,
    <<"x", "1", " ", "y", "2">>,
    <<"A", "-", "B">>,
    <<"w", "e", "l", "l", ".", ".", ".", " ", "o", "k">>,
    <<"t", "h", "a", "n", "k", " ", "y", "o", "u", "t", "h">>,
    <<"s", "a", "y", " ", "t", "h", "a", "n", "k", " ", "y", "o", "u">>,
    <<"w", "h", "a", "t", " ", "i", "s", " ", "y", "o", "u", "r", " ", "n", "a", "m", "e", " ", "B", "o", "b">>,
    <<"_">>,
    <<"g", "o", "_", "h", "o", "m", "e">>,
    <<"P", "l", "e", "a", "s", "e", " ", "h", "e", "l", "p", " ", "m", "e">>,
    <<"y", "e", "s", " ", "n", "o">>,
    <<"I", " ", "l", "o", "v", "e", " ", "y", "o", "u", " ", "X", "y", "z", "z", "y">>,
    <<"h", "i", "-", "f", "i", " ", "9">>
  }

TranslateInput(text, expand_fingerspelling) ==
  [text |-> text, expand_fingerspelling |-> expand_fingerspelling]

TranslatorScripts ==
  { <<TranslateInput(text, expand)>> : text \in TranslatorTexts, expand \in BOOLEAN }

InitTranslator ==
  /\ constructor = SentenceConstructor("HYBRID", DefaultWordTimeout, DefaultSentenceTimeout)
  /\ aggregator = TemporalAggregator(15, 5, <<1, 2>>, 3)
  /\ log = <<>>
  /\ script \in TranslatorScripts
  /\ now = 1
  /\ InitNoPipeline

TrEntry(input, result) ==
  [op |-> "translate", text |-> input.text,
   expand_fingerspelling |-> input.expand_fingerspelling, result |-> result]

TrTranslate ==
  /\ script # <<>>
  /\ \E result \in {translate(Head(script).text, Head(script).expand_fingerspelling)} :
       log' = Append(log, TrEntry(Head(script), result))
  /\ script' = Tail(script)
  /\ UNCHANGED <<aggregator, constructor, pipeline, session, call, now>>

\* translate_streaming(text): call holds the generator
TrStream ==
  /\ script # <<>>
  /\ call = NoCall
  /\ call' = translate_streaming(Head(script).text)
  /\ script' = Tail(script)
  /\ UNCHANGED <<aggregator, constructor, pipeline, log, session, now>>

\* next() on the generator
TrStreamNext ==
  /\ call.op = "translate_streaming"
  /\ ~call.pre.done
  /\ \E gen \in {generator_next(call)} : call' = gen
  /\ UNCHANGED <<aggregator, constructor, pipeline, log, script, session, now>>

NextTranslator == TrTranslate \/ TrStream \/ TrStreamNext

SpecTranslator == InitTranslator /\ [][NextTranslator]_vars

(***************************************************************************)
(* SpecVoting: _perform_voting on two prediction histories that differ     *)
(* only in the samples of one label                                        *)
(*                                                                         *)
(* script holds the pair of histories still to vote on, log the scores     *)
(* and the votes computed for them.                                        *)
(***************************************************************************)
\* the most samples of the label in the first and in the second history
MaxBefore == 2
MaxAfter == 3

\* the confidences a sample in the history can have: at least
\* min_confidence, which a caller may set to 0
VoteConfidenceValues == { RZero, <<1, 2>>, ROne }

\* the non-empty sample lists of at most n confidences
SamplesUpTo(n) == UNION { [1..k -> VoteConfidenceValues] : k \in 1..n }

\* the samples of the other labels, the same in both histories
OtherSamples ==
  { <<>>,
    << <<<<"B">>, ROne>> >>,
    << <<<<"B">>, ROne>>, <<<<"C">>, ROne>> >>,
    << <<<<"B">>, <<3, 4>>>>, <<<<"C">>, <<1, 2>>>>, <<<<"B">>, <<1, 2>>>> >> }

\* _prediction_history with the others' samples and the label's confidences
HistoryOf(others, label, confidences) ==
  others \o [i \in 1..Len(confidences) |-> <<label, confidences[i]>>]

VotingInputs ==
  { [label |-> <<"A">>, others |-> others, before |-> before, after |-> after] :
      others \in OtherSamples, before \in SamplesUpTo(MaxBefore),
      after \in SamplesUpTo(MaxAfter) }

InitVoting ==
  /\ constructor = SentenceConstructor("HYBRID", DefaultWordTimeout, DefaultSentenceTimeout)
  /\ aggregator = TemporalAggregator(15, 5, <<1, 2>>, 3)
  /\ log = <<>>
  /\ script \in { <<input>> : input \in VotingInputs }
  /\ now = 1
  /\ InitNoPipeline

\* what the voting computed for one history
VoteEntry(history, label) ==
  [history |-> history, label |-> label, score |-> Score(history, label),
   voted |-> _perform_voting(history)]

VtPerformVoting ==
  /\ script # <<>>
  /\ \E input \in {Head(script)} :
       log' = <<VoteEntry(HistoryOf(input.others, input.label, input.before), input.label),
                VoteEntry(HistoryOf(input.others, input.label, input.after), input.label)>>
  /\ script' = Tail(script)
  /\ UNCHANGED <<aggregator, constructor, pipeline, session, call, now>>

NextVoting == VtPerformVoting

SpecVoting == InitVoting /\ [][NextVoting]_vars

(***************************************************************************)
(* SpecBuilder: gestures added to a ContinuousSentenceBuilder that is      *)
(* polled with check_timeouts                                              *)
(*                                                                         *)
(* constructor is the builder's constructor, script the gestures still to  *)
(* add, log the calls made, each with the constructor it found and the     *)
(* callbacks it fired.                                                     *)
(***************************************************************************)
\* check_timeouts calls made in one run
MaxPolls == 2

\* letters, a delimiter, a word sign and a control label
BuilderScripts ==
  { <<>>,
    << Input(<<"H">>, <<17, 20>>, 0), Input(<<"E">>, <<4, 5>>, 0) >>,
    << Input(<<"H">>, <<17, 20>>, 0), Input(<<"E">>, <<4, 5>>, DefaultWordTimeout) >>,
    << Input(<<"S", "P", "A", "C", "E">>, <<9, 10>>, 0), Input(<<"A">>, <<4, 5>>, 0) >>,
    << Input(<<"h", "e", "l", "l", "o">>, <<9, 10>>, 0) >>,
    << Input(<<"A">>, <<4, 5>>, 0), Input(<<"b", "a", "c", "k", "s", "p", "a", "c", "e">>, <<3, 5>>, 0) >> }

\* the time between two calls: a moment, the word timeout, the sentence
\* timeout
PollDelays == { 1, DefaultWordTimeout, DefaultSentenceTimeout }

InitBuilder ==
  /\ constructor = Builder.constructor
  /\ aggregator = TemporalAggregator(15, 5, <<1, 2>>, 3)
  /\ log = <<>>
  /\ script \in BuilderScripts
  /\ now = 1
  /\ InitNoPipeline

BdEntry(op, pre, at, b) == [op |-> op, pre |-> pre, at |-> at, events |-> b.events]

Polls(l) == Len(SelectSeq(l, LAMBDA e : e.op = "check_timeouts"))

BdAddGesture ==
  /\ script # <<>>
  /\ \E t \in {now + Head(script).delay} :
       \E b \in {Builder_add_gesture([Builder EXCEPT !.constructor = constructor],
                                     InputGesture(Head(script), t), t)} :
         /\ now' = t
         /\ constructor' = b.constructor
         /\ log' = Append(log, BdEntry("add_gesture", constructor, t, b))
  /\ script' = Tail(script)
  /\ UNCHANGED <<aggregator, pipeline, session, call>>

BdCheckTimeouts ==
  /\ Polls(log) < MaxPolls
  /\ \E delay \in PollDelays :
       \E b \in {Builder_check_timeouts([Builder EXCEPT !.constructor = constructor],
                                        now + delay)} :
         /\ now' = now + delay
         /\ constructor' = b.constructor
         /\ log' = Append(log, BdEntry("check_timeouts", constructor, now + delay, b))
  /\ UNCHANGED <<aggregator, pipeline, script, session, call>>

NextBuilder == BdAddGesture \/ BdCheckTimeouts

SpecBuilder == InitBuilder /\ [][NextBuilder]_vars

(***************************************************************************)
(* Spec: calls made on a SignLanguagePipeline                              *)
(***************************************************************************)
\* PipelineConfig(), the demo's PipelineConfig, and a host that shortens the
\* timeouts: PipelineConfig(word_timeout=1.0, sentence_timeout=2.0)
PipelineConfigs ==
  { PipelineConfig(15, 5, <<1, 2>>, DefaultWordTimeout, DefaultSentenceTimeout, TRUE),
    PipelineConfig(10, 3, <<1, 2>>, DefaultWordTimeout, DefaultSentenceTimeout, TRUE),
    PipelineConfig(15, 5, <<1, 2>>, 2, 4, TRUE) }

\* a process_gesture call, delay half seconds after the previous call
GestureInput(label, confidence, gesture_type, delay) ==
  [kind |-> "gesture", hand_detected |-> TRUE, label |-> Some(label),
   confidence |-> confidence, gesture_type |-> gesture_type, delay |-> delay]

\* a process_frame call, delay half seconds after the previous call
FrameInput(hand_detected, label, confidence, delay) ==
  [kind |-> "frame", hand_detected |-> hand_detected, label |-> label,
   confidence |-> confidence, gesture_type |-> "static", delay |-> delay]

\* the end-to-end scenario: H, E, L, L, O
HelloScript ==
  << GestureInput(<<"H">>, <<17, 20>>, "static", 0),
     GestureInput(<<"E">>, <<41, 50>>, "static", 0),
     GestureInput(<<"L">>, <<22, 25>>, "static", 0),
     GestureInput(<<"L">>, <<21, 25>>, "static", 0),
     GestureInput(<<"O">>, <<43, 50>>, "static", 0) >>

\* the demo's gestures: H, I and the wave
DemoScript ==
  << GestureInput(<<"H">>, <<17, 20>>, "static", 0),
     GestureInput(<<"I">>, <<41, 50>>, "static", 0),
     GestureInput(<<"W","A","V","E">>, <<9, 10>>, "dynamic", 0) >>

\* a camera showing A, then B, then nothing
CameraScript ==
  << FrameInput(TRUE, Some(<<"A">>), <<9, 10>>, 0),
     FrameInput(TRUE, Some(<<"A">>), <<9, 10>>, 0),
     FrameInput(TRUE, Some(<<"A">>), <<9, 10>>, 0),
     FrameInput(TRUE, Some(<<"A">>), <<9, 10>>, 0),
     FrameInput(TRUE, Some(<<"B">>), <<4, 5>>, 0),
     FrameInput(TRUE, Some(<<"B">>), <<4, 5>>, 0),
     FrameInput(FALSE, None, RZero, 0) >>

\* a weak gesture, a letter, a pause past the word timeout, then the camera
MixedScript ==
  << GestureInput(<<"H">>, <<2, 5>>, "static", 0),
     GestureInput(<<"O">>, <<3, 5>>, "static", 0),
     GestureInput(<<"K">>, <<3, 4>>, "static", DefaultWordTimeout + 1),
     FrameInput(TRUE, Some(<<"y","e","s">>), <<9, 10>>, 0),
     FrameInput(TRUE, Some(<<"y","e","s">>), <<9, 10>>, 0),
     FrameInput(TRUE, Some(<<"y","e","s">>), <<9, 10>>, 0),
     FrameInput(FALSE, None, RZero, DefaultSentenceTimeout) >>

\* two letters 1.5 s apart and a weak third, then an idle camera 2.0 s and
\* 3.0 s after the second letter
PauseScript ==
  << GestureInput(<<"A">>, <<9, 10>>, "static", 0),
     GestureInput(<<"B">>, <<4, 5>>, "static", DefaultWordTimeout),
     GestureInput(<<"C">>, <<3, 10>>, "static", 0),
     FrameInput(FALSE, None, RZero, 4),
     FrameInput(FALSE, None, RZero, 2) >>

\* a caller whose confidences are not probabilities: 1.5 for a gesture and
\* for the frames of a camera
LoudScript ==
  << GestureInput(<<"A">>, <<3, 2>>, "static", 0),
     FrameInput(TRUE, Some(<<"B">>), <<3, 2>>, 0),
     FrameInput(TRUE, Some(<<"B">>), <<3, 2>>, 0),
     FrameInput(TRUE, Some(<<"B">>), <<3, 2>>, 0),
     FrameInput(TRUE, Some(<<"B">>), <<3, 2>>, 0) >>

\* two sentences: A, an idle camera past the sentence timeout and half a
\* second later, then B and the idle camera again
SentencesScript ==
  << GestureInput(<<"A">>, <<9, 10>>, "static", 0),
     FrameInput(FALSE, None, RZero, DefaultSentenceTimeout),
     FrameInput(FALSE, None, RZero, 1),
     GestureInput(<<"B">>, <<4, 5>>, "static", 0),
     FrameInput(FALSE, None, RZero, DefaultSentenceTimeout) >>

PipelineScripts ==
  { HelloScript, DemoScript, CameraScript, MixedScript, PauseScript, LoudScript,
    SentencesScript }

PipelineModes == { "LIVE_CONTINUOUS", "LIVE_ACCUMULATE", "TEXT_TO_SIGN" }

Init ==
  /\ pipeline \in { SignLanguagePipeline(c) : c \in PipelineConfigs }
  /\ script \in PipelineScripts
  /\ session = NoSession
  /\ call = NoCall
  /\ now = 1
  /\ aggregator = TemporalAggregator(15, 5, <<1, 2>>, 3)
  /\ constructor = SentenceConstructor("HYBRID", DefaultWordTimeout, DefaultSentenceTimeout)
  /\ log = <<>>

\* the host reads the callbacks of one call at a time
Listen(p) == [p EXCEPT !.events = <<>>]

\* what the next call finds
Pre(p) ==
  [is_processing |-> p._state.is_processing, mode |-> p._state.mode,
   candidate |-> p.aggregator._current_candidate,
   gestures_recognized |-> p._state.gestures_recognized,
   gesture_count |-> Len(p.constructor._gesture_sequence.gestures)]

\* the sentences the last call announced through translation-complete,
\* each with the number of gestures recognized by then
Completed(p) ==
  With(SelectSeq(p.events, LAMBDA e : e.cb = "translation_complete"), LAMBDA fired :
    [i \in 1..Len(fired) |->
       [result |-> fired[i].arg[1], recognized |-> p._state.gestures_recognized]])

Called(op, value) == call' = [op |-> op, value |-> value, pre |-> Pre(pipeline)]

PlStart ==
  /\ \E mode \in PipelineModes :
       /\ pipeline' = start(Listen(pipeline), mode, now)
       /\ session' = [mode |-> mode, gestures |-> <<>>, clean |-> TRUE, edits |-> 0,
                       sentences |-> <<>>]
  /\ Called("start", <<>>)
  /\ UNCHANGED <<aggregator, constructor, log, script, now>>

PlStop ==
  /\ pipeline' = stop(Listen(pipeline))
  /\ session' = [session EXCEPT !.clean = FALSE]
  /\ Called("stop", <<>>)
  /\ UNCHANGED <<aggregator, constructor, log, script, now>>

PlStopAndTranslate ==
  /\ \E r \in {stop_and_translate(Listen(pipeline), now)} :
       /\ pipeline' = r.p
       /\ Called("stop_and_translate", <<r.value>>)
  /\ UNCHANGED <<aggregator, constructor, log, script, session, now>>

PlProcessGesture ==
  /\ script # <<>> /\ Head(script).kind = "gesture"
  /\ LET in == Head(script)
         t == now + in.delay
     IN /\ now' = t
        /\ \E r \in {process_gesture(Listen(pipeline), Get(in.label), in.confidence,
                                      in.gesture_type, t)} :
             /\ pipeline' = r.p
             /\ Called("process_gesture", <<r.value>>)
        /\ session' = IF pipeline._state.is_processing
                      THEN [session EXCEPT !.gestures =
                              Append(@, [label |-> Get(in.label),
                                         confidence |-> in.confidence, at |-> t])]
                      ELSE session
  /\ script' = Tail(script)
  /\ UNCHANGED <<aggregator, constructor, log>>

PlProcessFrame ==
  /\ script # <<>> /\ Head(script).kind = "frame"
  /\ LET in == Head(script)
         t == now + in.delay
     IN /\ now' = t
        /\ \E r \in {pipeline_process_frame(Listen(pipeline), in.hand_detected, in.label,
                                             in.confidence, in.gesture_type, t)} :
             /\ pipeline' = r.p
             /\ Called("process_frame", <<r.value>>)
        /\ session' = IF pipeline._state.is_processing
                      THEN [session EXCEPT !.clean = FALSE,
                                           !.sentences = @ \o Completed(pipeline')]
                      ELSE session
  /\ script' = Tail(script)
  /\ UNCHANGED <<aggregator, constructor, log>>

PlClear ==
  /\ pipeline' = clear(Listen(pipeline))
  /\ session' = NoSession
  /\ Called("clear", <<>>)
  /\ UNCHANGED <<aggregator, constructor, log, script, now>>

PlInsertSpace ==
  /\ session.edits < MaxPipelineEdits
  /\ pipeline' = pipeline_insert_space(Listen(pipeline), now)
  /\ session' = [session EXCEPT !.clean = FALSE, !.edits = @ + 1]
  /\ Called("insert_space", <<>>)
  /\ UNCHANGED <<aggregator, constructor, log, script, now>>

PlDeleteLast ==
  /\ session.edits < MaxPipelineEdits
  /\ \E delete_word \in BOOLEAN :
       pipeline' = delete_last(Listen(pipeline), delete_word)
  /\ session' = [session EXCEPT !.clean = FALSE, !.edits = @ + 1]
  /\ Called("delete_last", <<>>)
  /\ UNCHANGED <<aggregator, constructor, log, script, now>>

Next ==
  \/ PlStart
  \/ PlStop
  \/ PlStopAndTranslate
  \/ PlProcessGesture
  \/ PlProcessFrame
  \/ PlClear
  \/ PlInsertSpace
  \/ PlDeleteLast

Spec == Init /\ [][Next]_vars

(***************************************************************************)
(* Properties of the aggregator (SpecAggregator)                           *)
(***************************************************************************)
\* the calls since construction or the last clear()
LastClear(l) ==
  IF \E i \in 1..Len(l) : l[i].op = "clear"
  THEN CHOOSE i \in 1..Len(l) : l[i].op = "clear" /\ \A j \in (i + 1)..Len(l) : l[j].op # "clear"
  ELSE 0
Run(l) == SubSeq(l, LastClear(l) + 1, Len(l))

\* a process_frame call with the hand detected, this label and a
\* confidence of at least min_confidence
Shows(e, label) ==
  /\ e.op = "process_frame"
  /\ Get(e.frame).hand_detected
  /\ Get(e.frame).predicted_label = Some(label)
  /\ RLe(aggregator.min_confidence, Get(e.frame).confidence)

\* a process_frame call with no hand detected
NoHand(e) == e.op = "process_frame" /\ ~Get(e.frame).hand_detected

\* the gestures emitted by the calls first..last
EmittedIn(l, first, last) ==
  SelectSeq(SubSeq(l, first, last), LAMBDA e : IsSome(e.out))

FrameLabels == { <<"A">>, <<"B">> }

\* C2: a fresh or cleared aggregator that was fed exactly
\* stability_threshold frames, all with the hand detected, the same label
\* and a confidence of at least min_confidence, has emitted exactly one
\* gesture, of that label and with frame_count = stability_threshold.
C2_StabilityEmission ==
  \A label \in FrameLabels :
    LET run == Run(log)
    IN (/\ Len(run) = aggregator.stability_threshold
        /\ \A i \in 1..Len(run) : Shows(run[i], label))
       => /\ Len(EmittedIn(run, 1, Len(run))) = 1
          /\ Get(EmittedIn(run, 1, Len(run))[1].out).label = label
          /\ Get(EmittedIn(run, 1, Len(run))[1].out).frame_count =
               aggregator.stability_threshold

\* the run is n frames of x followed by at least one frame of y and
\* nothing else
Switches(run, n, x, y) ==
  /\ n >= 1 /\ n < Len(run)
  /\ \A i \in 1..n : Shows(run[i], x)
  /\ \A i \in (n + 1)..Len(run) : Shows(run[i], y)

\* C3: a fresh aggregator fed N < stability_threshold/2 frames of A and
\* then frames of B emits no gesture labelled A, and has emitted a gesture
\* labelled B once B was shown for 2N + stability_threshold frames.
C3_ShortCandidateAbandoned ==
  \A x, y \in FrameLabels : \A n \in 1..Len(Run(log)) :
    LET run == Run(log)
    IN (x # y /\ 2 * n < aggregator.stability_threshold /\ Switches(run, n, x, y))
       => /\ \A i \in 1..Len(run) : IsSome(run[i].out) => Get(run[i].out).label # x
          /\ Len(run) - n >= 2 * n + aggregator.stability_threshold
               => \E i \in 1..Len(run) : IsSome(run[i].out) /\ Get(run[i].out).label = y

\* C4: a fresh aggregator fed N >= stability_threshold/2 frames of A and
\* then frames of B has emitted a gesture labelled A by the frame on which
\* it holds a candidate for B.
C4_LongCandidateEmitted ==
  \A x, y \in FrameLabels : \A n \in 1..Len(Run(log)) :
    LET run == Run(log)
    IN (x # y /\ 2 * n >= aggregator.stability_threshold /\ Switches(run, n, x, y))
       => \A i \in (n + 1)..Len(run) :
            (IsSome(run[i].candidate) /\ Get(run[i].candidate).label = y)
            => \E j \in 1..i : IsSome(run[j].out) /\ Get(run[j].out).label = x

\* C5: when the aggregator is TRACKING a candidate of at least
\* transition_frames frames and is then fed transition_frames + 1 frames
\* with no hand, the candidate was emitted exactly once by those frames
\* and the aggregator is IDLE after them.
C5_NoHandFinalize ==
  LET k == Len(log) - (aggregator.transition_frames + 1)
  IN (/\ k >= 1
      /\ log[k].state = "TRACKING"
      /\ IsSome(log[k].candidate)
      /\ duration_frames(Get(log[k].candidate)) >= aggregator.transition_frames
      /\ \A i \in (k + 1)..Len(log) : NoHand(log[i]))
     => /\ Len(EmittedIn(log, k + 1, Len(log))) = 1
        /\ Get(EmittedIn(log, k + 1, Len(log))[1].out).label = Get(log[k].candidate).label
        /\ aggregator._state = "IDLE"

\* a process_frame call with the hand detected in which the vote gave label
Votes(e, label) == e.op = "process_frame" /\ e.voted = Some(label)

\* a process_frame call that emitted the label it voted for
EmitsByStability(e, label) ==
  Votes(e, label) /\ IsSome(e.out) /\ Get(e.out).label = label

\* C21: after a gesture for label L was emitted by stability, no call
\* emits a gesture as long as every call since is a frame with the hand
\* detected whose voted label is L.
C21_NoRepeatWhileHeld ==
  \A label \in FrameLabels : \A i \in 1..Len(log) : \A j \in (i + 1)..Len(log) :
    (/\ EmitsByStability(log[i], label)
     /\ \A k \in (i + 1)..j : Votes(log[k], label))
    => ~IsSome(log[j].out)

\* the state and the candidate before the last call of the log
StateBefore(l) == IF Len(l) >= 2 THEN l[Len(l) - 1].state ELSE "IDLE"
CandidateBefore(l) == IF Len(l) >= 2 THEN l[Len(l) - 1].candidate ELSE None

\* the last call was a frame voting for the tracked candidate's label that
\* brought the candidate's duration_frames to stability_threshold or more
ReachedStability ==
  /\ log # <<>>
  /\ StateBefore(log) = "TRACKING"
  /\ IsSome(CandidateBefore(log))
  /\ Votes(Last(log), Get(CandidateBefore(log)).label)
  /\ aggregator._frame_count - Get(CandidateBefore(log)).start_frame + 1
       >= aggregator.stability_threshold

\* C22: a tracked candidate that reaches duration_frames >=
\* stability_threshold is emitted by that same process_frame call, and
\* after the call the aggregator is IDLE with no candidate.
C22_FinalizeResetsToIdle ==
  ReachedStability =>
    /\ IsSome(Last(log).out)
    /\ Get(Last(log).out).label = Get(CandidateBefore(log)).label
    /\ aggregator._current_candidate = None
    /\ aggregator._state = "IDLE"

\* the part of C22 the code keeps: the candidate is emitted by that call
\* and no candidate is left
C22_FinalizedInSameCall ==
  ReachedStability =>
    /\ IsSome(Last(log).out)
    /\ Get(Last(log).out).label = Get(CandidateBefore(log)).label
    /\ aggregator._current_candidate = None

\* C23: a hand-detected frame with a voted label, arriving in STABLE, or in
\* TRANSITIONING when the voted label is the candidate's, leaves the
\* aggregator TRACKING a candidate for that label and emits nothing.
C23_ConfirmedLabelTracks ==
  \A label \in FrameLabels :
    (/\ log # <<>>
     /\ Votes(Last(log), label)
     /\ \/ StateBefore(log) = "STABLE"
        \/ /\ StateBefore(log) = "TRANSITIONING"
           /\ CandidateBefore(log) # None
           /\ Get(CandidateBefore(log)).label = label)
    => /\ aggregator._state = "TRACKING"
       /\ IsSome(aggregator._current_candidate)
       /\ Get(aggregator._current_candidate).label = label
       /\ ~IsSome(Last(log).out)

\* a frame voting B arrived in TRANSITIONING with a candidate for B and
\* left the aggregator TRACKING B over two frames
C23_Witness ==
  /\ Len(log) >= 2
  /\ StateBefore(log) = "TRANSITIONING"
  /\ Votes(Last(log), <<"B">>)
  /\ aggregator._state = "TRACKING"
  /\ IsSome(aggregator._current_candidate)
  /\ Get(aggregator._current_candidate).label = <<"B">>
  /\ duration_frames(Get(aggregator._current_candidate)) = 2

\* a frame voting A arrived in STABLE and left the aggregator TRACKING A
C23_WitnessStable ==
  /\ Len(log) >= 2
  /\ StateBefore(log) = "STABLE"
  /\ Votes(Last(log), <<"A">>)
  /\ aggregator._state = "TRACKING"

(***************************************************************************)
(* Properties of the constructor (SpecConstructor)                         *)
(***************************************************************************)
\* the constructor that the logged calls leave behind
RECURSIVE Replay(_)
Replay(l) ==
  IF l = <<>> THEN SentenceConstructor("HYBRID", DefaultWordTimeout, DefaultSentenceTimeout)
  ELSE LET sc == Replay(Front(l))
           e == Last(l)
       IN CASE e.op = "add_gesture" ->
                 add_gesture(sc, InputGesture(Input(e.label, e.confidence, 0), e.at), e.at)
            [] e.op = "insert_space" -> insert_space(sc, e.at)
            [] e.op = "remove_last_word" -> remove_last_word(sc)
            [] e.op = "remove_last_letter" -> remove_last_letter(sc)
            [] e.op = "finalize_sentence" -> finalize_sentence(sc, e.at)
            [] OTHER -> SentenceConstructor_clear(sc)

\* an add_gesture call with a single letter
AddsLetter(e) == e.op = "add_gesture" /\ Len(e.label) = 1 /\ isalpha(e.label[1])

\* C6: when a single letter X is added with no word in progress and a single
\* letter Y is added more than word_timeout later, X is one new word of
\* the finalized words and Y is the only letter of the word in progress.
C6_TimeoutSplitsWords ==
  (/\ Len(log) >= 2
   /\ AddsLetter(log[Len(log) - 1]) /\ AddsLetter(log[Len(log)])
   /\ log[Len(log)].at - log[Len(log) - 1].at > constructor.word_timeout
   /\ Replay(SubSeq(log, 1, Len(log) - 2))._current_word.letters = <<>>)
  => /\ Len(constructor._words) = Len(Replay(SubSeq(log, 1, Len(log) - 2))._words) + 1
     /\ constructor._current_word.letters = upper(log[Len(log)].label)

\* C7: spelling any key of the pattern table letter by letter and then
\* finalizing the sentence leaves the table's word as the one finalized word.
C7_PatternWordRecognized ==
  \A k \in 1..Len(_word_patterns) :
    LET key == _word_patterns[k][1]
    IN (/\ Len(log) = Len(key) + 1
        /\ \A j \in 1..Len(key) : log[j].op = "add_gesture" /\ log[j].label = <<key[j]>>
        /\ log[Len(log)].op = "finalize_sentence")
       => constructor._words = << _word_patterns[k][2] >>

\* what the claim compares: words, letters in progress and their
\* confidences, displayed text, recorded gestures, and the count and
\* confidence a finalize_sentence would report
Observed(sc, t) ==
  [words |-> sc._words,
   letters |-> sc._current_word.letters,
   confidences |-> sc._current_word.confidences,
   text |-> sc._formatted_text,
   gestures |-> sc._gesture_sequence.gestures,
   gesture_count |-> finalize_sentence_result(sc, t).gesture_count,
   confidence |-> finalize_sentence_result(sc, t).confidence]

\* C8: add_gesture('A'); add_gesture('B'); remove_last_letter() leaves
\* the constructor as add_gesture('A') alone leaves it.
C8_RemoveLastLetterUndoesAdd ==
  (/\ Len(log) >= 3
   /\ log[Len(log) - 2].op = "add_gesture" /\ log[Len(log) - 2].label = <<"A">>
   /\ log[Len(log) - 1].op = "add_gesture" /\ log[Len(log) - 1].label = <<"B">>
   /\ log[Len(log)].op = "remove_last_letter")
  => Observed(constructor, now) = Observed(Replay(SubSeq(log, 1, Len(log) - 2)), now)

(***************************************************************************)
(* Properties of the pipeline (Spec)                                       *)
(***************************************************************************)
\* the labels and confidences of the gestures fed since start()
Fed(s) == [i \in 1..Len(s.gestures) |-> <<s.gestures[i].label, s.gestures[i].confidence>>]
Hello == [i \in 1..Len(HelloScript) |-> <<Get(HelloScript[i].label), HelloScript[i].confidence>>]

\* no two consecutive gestures, nor the last one and now, are more than
\* the word timeout apart
NoTimeout(s) ==
  /\ \A i \in 1..(Len(s.gestures) - 1) :
       s.gestures[i + 1].at - s.gestures[i].at <= DefaultWordTimeout
  /\ s.gestures # <<>> => now - Last(s.gestures).at <= DefaultWordTimeout

\* the callbacks of this name that the last call fired
Fired(cb) == SelectSeq(pipeline.events, LAMBDA e : e.cb = cb)

\* C1: after start(LIVE_ACCUMULATE), process_gesture of H, E, L, L, O with
\* no timeout between them and then stop_and_translate() returns the text
\* "Hello", gesture_count 5 and a confidence above 0.
C1_HelloEndToEnd ==
  (/\ call.op = "stop_and_translate"
   /\ session.mode = "LIVE_ACCUMULATE" /\ session.clean
   /\ Fed(session) = Hello /\ NoTimeout(session))
  => /\ call.value[1].text = <<"H","e","l","l","o">>
     /\ call.value[1].gesture_count = 5
     /\ RLt(RZero, call.value[1].confidence)

\* a candidate that force_finalize emits
InFlight(candidate) == IsSome(candidate) /\ duration_frames(Get(candidate)) >= 2

\* C9: stop_and_translate() emits an in-flight candidate of at least two
\* frames exactly once, as the last gesture of the result it returns and
\* counted in its gesture_count; it does not emit a candidate of one
\* frame; afterwards the mode is IDLE and is_processing is false.
C9_StopForcesCandidate ==
  call.op = "stop_and_translate"
  => /\ InFlight(call.pre.candidate)
          => /\ Len(Fired("gesture_recognized")) = 1
             /\ call.value[1].gesture_count = call.pre.gesture_count + 1
             /\ Last(call.value[1].source_sequence.gestures).label =
                  Get(call.pre.candidate).label
             /\ Last(call.value[1].source_sequence.gestures).frame_count =
                  duration_frames(Get(call.pre.candidate))
             /\ Last(call.value[1].source_sequence.gestures) =
                  Fired("gesture_recognized")[1].arg[1]
     /\ (IsSome(call.pre.candidate) /\ ~InFlight(call.pre.candidate))
          => /\ Fired("gesture_recognized") = <<>>
             /\ call.value[1].gesture_count = call.pre.gesture_count
     /\ pipeline._state.mode = "IDLE"
     /\ ~pipeline._state.is_processing

\* stop_and_translate() was called with a candidate of at least two frames
\* in flight, after other gestures
C9_Witness ==
  /\ call.op = "stop_and_translate"
  /\ InFlight(call.pre.candidate)
  /\ call.pre.gesture_count > 0
  /\ Len(Fired("gesture_recognized")) = 1

\* C10: stop_and_translate() on a started pipeline with zero gestures
\* processed, none recognized so far and none in flight for the call to
\* force out, returns the text "" with is_valid false and does not fire
\* the translation-complete callback.
C10_EmptyTranslation ==
  (/\ call.op = "stop_and_translate"
   /\ call.pre.is_processing
   /\ call.pre.gestures_recognized = 0
   /\ ~InFlight(call.pre.candidate))
  => /\ call.value[1].text = <<>>
     /\ ~is_valid(call.value[1])
     /\ call.value[1].gesture_count = 0
     /\ Fired("translation_complete") = <<>>

\* stop_and_translate() was called on a started pipeline that had been fed
\* frames but had recognized no gesture
C10_Witness ==
  /\ call.op = "stop_and_translate"
  /\ call.pre.is_processing
  /\ call.pre.gestures_recognized = 0
  /\ ~InFlight(call.pre.candidate)
  /\ pipeline._state.frames_processed > 0
  /\ call.value[1].text = <<>>


\* C11: in LIVE_ACCUMULATE mode with auto_translate_enabled, a process_frame
\* call made when at least config.sentence_timeout has passed since the last
\* recognized gesture finalizes the sentence, translation-complete firing
\* once with the accumulated text, and a process_frame call made before
\* that fires nothing.
C11_AutoTranslateAfterTimeout ==
  (/\ call.op = "process_frame"
   /\ call.pre.is_processing /\ call.pre.mode = "LIVE_ACCUMULATE"
   /\ pipeline.config.auto_translate_enabled
   /\ pipeline._last_gesture_time # 0
   /\ pipeline.constructor._formatted_text # <<>>)
  => IF now - pipeline._last_gesture_time >= pipeline.config.sentence_timeout
     THEN /\ Len(Fired("translation_complete")) = 1
          /\ Fired("translation_complete")[1].arg[1].text =
               pipeline.constructor._formatted_text
     ELSE Fired("translation_complete") = <<>>

\* the last two gestures of the session: both accepted by process_gesture,
\* both letters that the vocabulary does not read as word signs, with
\* nothing but process_gesture called since start()
TwoLetters ==
  /\ call.op = "process_gesture" /\ call.pre.is_processing /\ session.clean
  /\ Len(session.gestures) >= 2
  /\ \A i \in {Len(session.gestures) - 1, Len(session.gestures)} :
       /\ _is_letter_or_number(session.gestures[i].label)
       /\ ~is_word_gesture(session.gestures[i].label)
       /\ RLe(pipeline.config.min_confidence, session.gestures[i].confidence)
Gap == Last(session.gestures).at - session.gestures[Len(session.gestures) - 1].at

\* C12: in a pipeline built with PipelineConfig(word_timeout = W), two letter
\* gestures recognized more than W apart are placed in separate words, and
\* two recognized less than W apart are placed in the same word.
C12_ConfiguredWordTimeout ==
  TwoLetters
  => /\ Gap > pipeline.config.word_timeout
          => pipeline.constructor._current_word.letters = Last(session.gestures).label
     /\ Gap < pipeline.config.word_timeout
          => /\ Len(pipeline.constructor._current_word.letters) >= 2
             /\ SubSeq(pipeline.constructor._current_word.letters,
                       Len(pipeline.constructor._current_word.letters) - 1,
                       Len(pipeline.constructor._current_word.letters)) =
                  session.gestures[Len(session.gestures) - 1].label
                    \o Last(session.gestures).label

\* C13: process_frame called with a hand-detected frame whose confidence is
\* below min_confidence returns None and emits no gesture, whatever frames
\* came before it.
C13_LowConfidenceFrameRejected ==
  \A i \in 1..Len(log) :
    (/\ log[i].op = "process_frame"
     /\ Get(log[i].frame).hand_detected
     /\ RLt(Get(log[i].frame).confidence, aggregator.min_confidence))
    => log[i].out = None

\* C14: whenever is_processing is false, process_frame and process_gesture
\* return None, leave the pipeline state, the aggregator and the sentence
\* constructor unchanged and fire no callback.
C14_IdleCallsAreNoOps ==
  [][(/\ ~pipeline._state.is_processing
      /\ call'.op \in {"process_frame", "process_gesture"})
     => /\ call'.value = <<None>>
        /\ pipeline' = Listen(pipeline)]_vars

\* process_gesture was called after stop(), on a pipeline that still holds
\* the gestures of the stopped session
C14_Witness ==
  /\ call.op = "process_gesture"
  /\ ~call.pre.is_processing
  /\ call.pre.gestures_recognized > 0
  /\ call.value = <<None>>
  /\ pipeline.events = <<>>

\* C15: process_gesture called with a confidence below config.min_confidence
\* returns None, does not increment gestures_recognized, adds nothing to
\* the constructor's gesture sequence, words or in-progress word, and fires
\* no callback.
C15_WeakGestureRejected ==
  [][(/\ call'.op = "process_gesture"
      /\ script # <<>>
      /\ RLt(Head(script).confidence, pipeline.config.min_confidence))
     => /\ call'.value = <<None>>
        /\ pipeline'._state.gestures_recognized = pipeline._state.gestures_recognized
        /\ pipeline'.constructor._gesture_sequence = pipeline.constructor._gesture_sequence
        /\ pipeline'.constructor._words = pipeline.constructor._words
        /\ pipeline'.constructor._current_word = pipeline.constructor._current_word
        /\ pipeline'.events = <<>>]_vars

\* a started pipeline that had recognized gestures was handed a gesture
\* below min_confidence
C15_Witness ==
  /\ call.op = "process_gesture"
  /\ call.pre.is_processing
  /\ call.pre.gestures_recognized > 0
  /\ RLt(Last(session.gestures).confidence, pipeline.config.min_confidence)
  /\ call.value = <<None>>
  /\ pipeline._state.gestures_recognized = call.pre.gestures_recognized

\* C16: on a constructor with no pending letters and no finalized words,
\* remove_last_word and remove_last_letter return False and change nothing;
\* insert_space with no pending letters leaves the finalized words as they
\* were.
C16_GuardsAreNoOps ==
  log # <<>> =>
    LET before == Replay(Front(log))
        nothing == before._current_word.letters = <<>> /\ before._words = <<>>
    IN /\ (Last(log).op = "remove_last_word" /\ nothing)
            => constructor = before /\ ~remove_last_word_result(before)
       /\ (Last(log).op = "remove_last_letter" /\ nothing)
            => constructor = before /\ ~remove_last_letter_result(before)
       /\ (Last(log).op = "insert_space" /\ before._current_word.letters = <<>>)
            => constructor._words = before._words

\* insert_space was called with finalized words and no pending letters
C16_Witness ==
  /\ Len(log) >= 2
  /\ Last(log).op = "insert_space"
  /\ Replay(Front(log))._current_word.letters = <<>>
  /\ Replay(Front(log))._words # <<>>
  /\ constructor._words = Replay(Front(log))._words

\* a confidence within [0, 1]
InUnit(c) == RLe(RZero, c) /\ RLe(c, ROne)

\* C17: every RecognizedGesture that reaches the sentence constructor and
\* every TranslationResult has a confidence within [0, 1], whatever
\* confidences the caller passes to process_frame or process_gesture.
C17_ConfidenceClamped ==
  /\ \A i \in 1..Len(pipeline.constructor._gesture_sequence.gestures) :
       InUnit(pipeline.constructor._gesture_sequence.gestures[i].confidence)
  /\ call.op = "stop_and_translate" => InUnit(call.value[1].confidence)

\* an add_gesture call with a delimiter label
AddsDelimiter(e) ==
  e.op = "add_gesture" /\ (upper(e.label) \in _word_delimiters \/ e.label = <<" ">>)

\* C25: a gesture whose upper-cased label is a delimiter only marks a word
\* boundary: after add_gesture no letter is pending, and the finalized
\* words are the ones before plus the pending word, if there was one.
C25_DelimiterOnlyMarksBoundary ==
  (log # <<>> /\ AddsDelimiter(Last(log))) =>
    LET before == Replay(Front(log))
        pending == IF before._current_word.letters = <<>> THEN 0 ELSE 1
    IN /\ constructor._current_word.letters = <<>>
       /\ Len(constructor._words) = Len(before._words) + pending
       /\ SubSeq(constructor._words, 1, Len(before._words)) = before._words

\* C25 for the delimiters other than WAVE
C25_OtherDelimiters ==
  (log # <<>> /\ AddsDelimiter(Last(log)) /\ upper(Last(log).label) # <<"W", "A", "V", "E">>) =>
    LET before == Replay(Front(log))
        pending == IF before._current_word.letters = <<>> THEN 0 ELSE 1
    IN /\ constructor._current_word.letters = <<>>
       /\ Len(constructor._words) = Len(before._words) + pending
       /\ SubSeq(constructor._words, 1, Len(before._words)) = before._words

\* an add_gesture call with a label that is neither word-level, nor a
\* delimiter, nor a single letter or digit
AddsOther(e) ==
  /\ e.op = "add_gesture"
  /\ ~is_word_gesture(e.label)
  /\ ~AddsDelimiter(e)
  /\ ~(Len(e.label) = 1 /\ (isalpha(e.label[1]) \/ isdigit(e.label[1])))

\* C26: add_gesture with such a label changes nothing: the finalized words,
\* the word in progress, the text, the time of the last gesture and the
\* gesture_count and confidence that finalize_sentence reports are what
\* they were before the call.
C26_OtherGestureIgnored ==
  (log # <<>> /\ AddsOther(Last(log))) =>
    LET before == Replay(Front(log))
    IN /\ constructor._words = before._words
       /\ constructor._current_word.letters = before._current_word.letters
       /\ constructor._formatted_text = before._formatted_text
       /\ constructor._last_gesture_time = before._last_gesture_time
       /\ TranslationResult(constructor, now).gesture_count =
            TranslationResult(before, now).gesture_count
       /\ TranslationResult(constructor, now).confidence =
            TranslationResult(before, now).confidence

\* C28: while the pipeline is started in TEXT_TO_SIGN mode, no
\* process_frame or process_gesture call changes the aggregator's
\* history, state or candidate, nor the constructor's gesture sequence,
\* words or word in progress.
C28_TextToSignBypasses ==
  [][(/\ pipeline._state.is_processing
      /\ pipeline._state.mode = "TEXT_TO_SIGN"
      /\ call'.op \in {"process_frame", "process_gesture"})
     => /\ pipeline'.aggregator._prediction_history = pipeline.aggregator._prediction_history
        /\ pipeline'.aggregator._state = pipeline.aggregator._state
        /\ pipeline'.aggregator._current_candidate = pipeline.aggregator._current_candidate
        /\ pipeline'.constructor._gesture_sequence = pipeline.constructor._gesture_sequence
        /\ pipeline'.constructor._words = pipeline.constructor._words
        /\ pipeline'.constructor._current_word = pipeline.constructor._current_word]_vars

(***************************************************************************)
(* Properties of the translator (SpecTranslator)                           *)
(***************************************************************************)
\* the WORD_SIGN units of a result
WordSignUnits(result) ==
  {result.signs[i] : i \in {j \in 1..Len(result.signs) :
                              result.signs[j].output_type = "WORD_SIGN"}}

\* C18: for every WORD_SIGN unit that translate() produced, looking the
\* unit's text up in the vocabulary by text gives the sign definition whose
\* id is the unit's sign_id.
C18_WordSignRoundTrip ==
  \A i \in 1..Len(log) : \A unit \in WordSignUnits(log[i].result) :
     /\ IsSome(get_sign_by_text(unit.text))
     /\ Get(get_sign_by_text(unit.text)).id = unit.sign_id

\* "Hello" was translated to the one WORD_SIGN unit of the sign word_hello
C18_Witness ==
  /\ log # <<>>
  /\ log[1].text = <<"H", "e", "l", "l", "o">>
  /\ Len(log[1].result.signs) = 1
  /\ log[1].result.signs[1].output_type = "WORD_SIGN"
  /\ log[1].result.signs[1].sign_id = <<"word", "hello">>
  /\ log[1].result.signs[1].text = <<"H", "e", "l", "l", "o">>

\* a token of more than one character, not all digits, without a WORD or
\* PHRASE entry in the vocabulary
HasWordEntry(token) ==
  /\ IsSome(get_sign_by_text(token))
  /\ Get(get_sign_by_text(token)).category \in {"WORD", "PHRASE"}
Unknown(token) ==
  Len(token) > 1 /\ ~str_isdigit(token) /\ ~HasWordEntry(token)

\* the letters of a token, in order, upper-cased
Letters(token) == SelectSeq(upper(token), isalpha)

\* the number of units translate() emits for one token in expanded mode
UnitCount(token) ==
  IF Len(token) = 1 /\ isalpha(token[1]) THEN 1
  ELSE IF str_isdigit(token) THEN Len(token)
  ELSE IF HasWordEntry(token) THEN 1
  ELSE Len(Letters(token))

RECURSIVE UnitsBefore(_, _)
UnitsBefore(tokens, k) ==
  IF k = 1 THEN 0 ELSE UnitsBefore(tokens, k - 1) + UnitCount(tokens[k - 1])

\* the tokens translate() went through for a text: none when the text was
\* empty or began with a phrase pattern
TokensOf(text) ==
  IF text = <<>> \/ IsSome(_check_phrase_match(lower(_normalize_text(text)))) THEN <<>>
  ELSE _tokenize(_normalize_text(text))

\* C19: in expanded mode, every token of more than one character that is
\* not all digits and has no WORD or PHRASE entry gives exactly one
\* LETTER_SPELL unit per letter of the token, in the token's order, and no
\* WORD_SIGN unit.
C19_UnknownWordSpelledOut ==
  \A i \in 1..Len(log) :
    log[i].expand_fingerspelling =>
      LET tokens == TokensOf(log[i].text)
          signs == log[i].result.signs
      IN \A k \in 1..Len(tokens) :
           Unknown(tokens[k]) =>
             LET first == UnitsBefore(tokens, k)
                 letters == Letters(tokens[k])
             IN /\ Len(signs) >= first + Len(letters)
                /\ \A n \in 1..Len(letters) :
                     /\ signs[first + n].output_type = "LETTER_SPELL"
                     /\ signs[first + n].text = <<letters[n]>>
                /\ Len(signs) = UnitsBefore(tokens, Len(tokens) + 1)

\* "Xyzzy" was translated in expanded mode to the five units X, Y, Z, Z, Y
C19_Witness ==
  /\ log # <<>>
  /\ log[1].text = <<"X", "y", "z", "z", "y">>
  /\ log[1].expand_fingerspelling
  /\ Len(log[1].result.signs) = 5
  /\ \A n \in 1..5 : log[1].result.signs[n].output_type = "LETTER_SPELL"
  /\ [n \in 1..5 |-> log[1].result.signs[n].text[1]] = <<"X", "Y", "Z", "Z", "Y">>

(***************************************************************************)
(* Properties of the voting (SpecVoting)                                   *)
(***************************************************************************)
\* the samples of the entry's label and of the other labels in its history
OwnSamples(entry) == VoteConfidences(entry.history, entry.label)
ForeignSamples(entry) == SelectSeq(entry.history, LAMBDA p : p[1] # entry.label)

\* C20: when the label's sample count and mean confidence are both at least
\* what they were and every other label's samples are the same, the score
\* count x mean confidence of the label is at least what it was.
C20_ScoreMonotone ==
  (/\ Len(log) = 2
   /\ ForeignSamples(log[1]) = ForeignSamples(log[2])
   /\ Len(OwnSamples(log[1])) <= Len(OwnSamples(log[2]))
   /\ RLe(RMean(OwnSamples(log[1])), RMean(OwnSamples(log[2]))))
  => RLe(log[1].score, log[2].score)

\* one sample of 0.5 became two samples of 1.0 beside the samples of B and
\* C, and the score rose from 0.5 to 2
C20_Witness ==
  /\ Len(log) = 2
  /\ ForeignSamples(log[1]) # <<>>
  /\ ForeignSamples(log[1]) = ForeignSamples(log[2])
  /\ OwnSamples(log[1]) = << <<1, 2>> >>
  /\ OwnSamples(log[2]) = << ROne, ROne >>
  /\ log[1].score = <<1, 2>>
  /\ log[2].score = <<2, 1>>

\* the samples of a label in a history, their count x mean, and the place
\* the label is first seen at
SamplesOf(history, label) ==
  SelectSeq([i \in 1..Len(history) |-> IF history[i][1] = label THEN <<history[i][2]>> ELSE <<>>],
            LAMBDA c : c # <<>>)
MeanOf(history, label) ==
  RDivInt(RSum([i \in 1..Len(SamplesOf(history, label)) |-> SamplesOf(history, label)[i][1]]),
          Len(SamplesOf(history, label)))
CountTimesMean(history, label) ==
  RMul(<<Len(SamplesOf(history, label)), 1>>, MeanOf(history, label))
FirstSeen(history, label) ==
  CHOOSE i \in 1..Len(history) :
    history[i][1] = label /\ \A j \in 1..(i - 1) : history[j][1] # label

\* the label with the highest score, ties going to the label seen earliest
TopLabel(history) ==
  CHOOSE label \in {history[i][1] : i \in 1..Len(history)} :
    \A other \in {history[i][1] : i \in 1..Len(history)} :
      \/ other = label
      \/ RLt(CountTimesMean(history, other), CountTimesMean(history, label))
      \/ /\ CountTimesMean(history, other) = CountTimesMean(history, label)
         /\ FirstSeen(history, label) < FirstSeen(history, other)

\* the share of the history the label accounts for
Consistency(history, label) == <<Len(SamplesOf(history, label)), Len(history)>>

\* what C24 says _perform_voting returns for a history
ExpectedVote(history) ==
  IF Len(history) >= 2 /\ RLe(<<2, 5>>, Consistency(history, TopLabel(history)))
  THEN <<Some(TopLabel(history)),
         RMin(ROne, RMul(MeanOf(history, TopLabel(history)),
                         RAdd(<<1, 2>>, RMul(<<1, 2>>, Consistency(history, TopLabel(history))))))>>
  ELSE <<None, RZero>>

\* the vote and the expected vote are the same label, or both none, with the
\* same confidence
SameVote(a, b) == a[1] = b[1] /\ RLe(a[2], b[2]) /\ RLe(b[2], a[2])

\* C24: _perform_voting returns a label exactly when the history holds at
\* least 2 samples and the label with the highest score count x mean
\* (ties to the label seen earliest) accounts for at least 40% of the
\* history; the label is that one, the confidence is its mean confidence x
\* (0.5 + 0.5 x consistency) and at most 1; otherwise it returns no result.
C24_VotingResult ==
  \A i \in 1..Len(log) :
    /\ SameVote(log[i].voted, ExpectedVote(log[i].history))
    /\ RLe(log[i].voted[2], ROne)

\* C24 for the histories in which some label has a positive score
C24_VotingResultPositive ==
  \A i \in 1..Len(log) :
    (\E k \in 1..Len(log[i].history) : RLt(RZero, log[i].history[k][2]))
    => /\ SameVote(log[i].voted, ExpectedVote(log[i].history))
       /\ RLe(log[i].voted[2], ROne)

(***************************************************************************)
(* Properties of the builder (SpecBuilder)                                 *)
(***************************************************************************)
\* the callbacks of one kind among the events of a call
FiredOf(events, cb) == SelectSeq(events, LAMBDA ev : ev.cb = cb)

\* the last call was check_timeouts, idle the time since the last gesture
Polled == log # <<>> /\ Last(log).op = "check_timeouts"
Idle == Last(log).at - Last(log).pre._last_gesture_time

\* check_timeouts at or past the word timeout and before the sentence
\* timeout, letters pending: the pending word is finalized and
\* word-completed fires exactly once, with that word
WordTimeoutCase ==
  (/\ Polled
   /\ Last(log).pre._last_gesture_time > 0
   /\ Idle >= constructor.word_timeout /\ Idle < constructor.sentence_timeout
   /\ Last(log).pre._current_word.letters # <<>>)
  => /\ constructor._current_word.letters = <<>>
     /\ constructor._words =
          Append(Last(log).pre._words, Last(log).pre._current_word.letters)
     /\ Len(FiredOf(Last(log).events, "word_completed")) = 1
     /\ FiredOf(Last(log).events, "word_completed")[1].arg =
          <<Last(log).pre._current_word.letters>>
     /\ FiredOf(Last(log).events, "sentence_completed") = <<>>

\* check_timeouts before any gesture: nothing happens
NoGestureCase ==
  (Polled /\ Last(log).pre._last_gesture_time = 0)
  => constructor = Last(log).pre /\ Last(log).events = <<>>

\* check_timeouts at or past the sentence timeout: the sentence is
\* finalized, the pending word included
SentenceFinalized ==
  /\ constructor._current_word.letters = <<>>
  /\ constructor._words =
       IF Last(log).pre._current_word.letters = <<>> THEN Last(log).pre._words
       ELSE Append(Last(log).pre._words, Last(log).pre._current_word.letters)
  /\ constructor._gesture_sequence.is_complete
SentenceTimeout ==
  /\ Polled
  /\ Last(log).pre._last_gesture_time > 0
  /\ Idle >= constructor.sentence_timeout

\* sentence-completed fired once, with the result of the finalized sentence
SentenceCompletedFired ==
  /\ Len(FiredOf(Last(log).events, "sentence_completed")) = 1
  /\ FiredOf(Last(log).events, "sentence_completed")[1].arg =
       <<TranslationResult(constructor, now)>>

\* C27 as stated: on word timeout with letters pending the word is
\* finalized and word-completed fires once with it; on sentence timeout the
\* whole sentence is finalized and sentence-completed fires with the
\* result; before any gesture nothing happens.
C27_TimeoutDispatch ==
  /\ WordTimeoutCase
  /\ NoGestureCase
  /\ SentenceTimeout => (SentenceFinalized /\ SentenceCompletedFired)

\* C27 as amended: on sentence timeout sentence-completed fires with the
\* result when the result's text is not empty, and does not fire when it
\* is empty.
C27_TimeoutDispatchAmended ==
  /\ WordTimeoutCase
  /\ NoGestureCase
  /\ SentenceTimeout =>
       /\ SentenceFinalized
       /\ constructor._formatted_text # <<>> => SentenceCompletedFired
       /\ constructor._formatted_text = <<>> => Last(log).events = <<>>

\* H and E were pending at a poll between the two timeouts and became the
\* word HE, announced by word-completed
C27_Witness ==
  /\ Polled
  /\ Idle >= constructor.word_timeout /\ Idle < constructor.sentence_timeout
  /\ Last(log).pre._current_word.letters = <<"H", "E">>
  /\ constructor._words = << <<"H", "E">> >>
  /\ Len(FiredOf(Last(log).events, "word_completed")) = 1

\* a poll past the sentence timeout finalized the pending word and fired
\* sentence-completed
C27_WitnessSentence ==
  /\ SentenceTimeout
  /\ Last(log).pre._current_word.letters # <<>>
  /\ SentenceCompletedFired

(***************************************************************************)
(* Further properties of the translator (SpecTranslator)                   *)
(***************************************************************************)
\* the sign labels of the phrase a text matches, if it matches one
PhraseLabels(text) == _check_phrase_match(lower(_normalize_text(text)))

\* C29: when the normalized, lower-cased text is a phrase of the table or
\* starts with one followed by a space, translate() returns exactly one
\* WORD_SIGN unit per sign label of the phrase, in the listed order, and
\* nothing else, so sign_count is the number of the phrase's labels.
C29_PhraseUnits ==
  \A i \in 1..Len(log) :
    (log[i].text # <<>> /\ IsSome(PhraseLabels(log[i].text))) =>
      LET labels == Get(PhraseLabels(log[i].text))
          signs == log[i].result.signs
      IN /\ Len(signs) = Len(labels)
         /\ \A k \in 1..Len(signs) :
              /\ signs[k].output_type = "WORD_SIGN"
              /\ signs[k].sign_definition = get_sign_by_gesture(labels[k])
         /\ log[i].result.sign_count = Len(labels)

\* C29 for the phrases whose labels all name a sign of the vocabulary
C29_PhraseUnitsKnownLabels ==
  \A i \in 1..Len(log) :
    (/\ log[i].text # <<>> /\ IsSome(PhraseLabels(log[i].text))
     /\ \A k \in 1..Len(Get(PhraseLabels(log[i].text))) :
          IsSome(get_sign_by_gesture(Get(PhraseLabels(log[i].text))[k]))) =>
      LET labels == Get(PhraseLabels(log[i].text))
          signs == log[i].result.signs
      IN /\ Len(signs) = Len(labels)
         /\ \A k \in 1..Len(signs) :
              /\ signs[k].output_type = "WORD_SIGN"
              /\ signs[k].sign_definition = get_sign_by_gesture(labels[k])
         /\ log[i].result.sign_count = Len(labels)

\* the generator of a translate_streaming call, and whether it has ended
Streaming == call.op = "translate_streaming"

\* C30: the units translate_streaming(text) yields are, unit for unit and
\* in the same order, translate(text).signs in expanded mode: what it has
\* yielded so far is the beginning of that sequence, and all of it once
\* the generator has ended; for the empty text both are empty.
C30_StreamingEqualsTranslate ==
  Streaming =>
    LET signs == translate(call.pre.text, TRUE).signs
    IN /\ Len(call.value) <= Len(signs)
       /\ call.value = SubSeq(signs, 1, Len(call.value))
       /\ call.pre.done => call.value = signs
       /\ (call.pre.done /\ call.pre.text = <<>>) => (call.value = <<>> /\ signs = <<>>)

\* the generator for "Hello friend" ended after the sign for Hello and the
\* six letters of FRIEND
C30_Witness ==
  /\ Streaming
  /\ call.pre.done
  /\ call.pre.text = <<"H", "e", "l", "l", "o", " ", "f", "r", "i", "e", "n", "d">>
  /\ Len(call.value) = 7
  /\ call.value[1].output_type = "WORD_SIGN"
  /\ \A k \in 2..7 : call.value[k].output_type = "LETTER_SPELL"

(***************************************************************************)
(* Further properties of the aggregator                                    *)
(***************************************************************************)
\* C40: whenever the aggregator's state is IDLE it has no current
\* candidate.
C40_IdleHasNoCandidate ==
  aggregator._state = "IDLE" => ~IsSome(aggregator._current_candidate)

\* the log entries of the held sign's frames, and the sign held
SteadyBegun == Len(script) < MaxSteady
HeldLabel == Get(log[Len(log)].frame).predicted_label
SteadyEntries == { i \in 1..Len(log) : i > Len(log) - (MaxSteady - Len(script)) }
EmittedHeld ==
  /\ SteadyBegun
  /\ \E i \in SteadyEntries :
       IsSome(log[i].out) /\ Some(Get(log[i].out).label) = HeldLabel

\* C31: once every frame has a hand detected and the same label at a
\* confidence of at least min_confidence, a gesture of that label is
\* emitted at some later frame, whatever was processed before.
C31_HeldSignIsEmitted == SteadyBegun ~> EmittedHeld

\* the aggregator is TRANSITIONING with a candidate of another label than
\* the one every vote gives
Wedged ==
  /\ SteadyBegun
  /\ aggregator._state = "TRANSITIONING"
  /\ IsSome(aggregator._current_candidate)
  /\ _perform_voting(aggregator._prediction_history)[1] = HeldLabel
  /\ Some(Get(aggregator._current_candidate).label) # HeldLabel
  /\ \A k \in 1..Len(aggregator._prediction_history) :
       Some(aggregator._prediction_history[k][1]) = HeldLabel

\* a held sign is emitted unless the aggregator is wedged
C31_EmittedUnlessWedged == SteadyBegun ~> (EmittedHeld \/ Wedged)

\* a wedged aggregator stays as it is on every further frame of the sign
C31_WedgedForGood ==
  [][Wedged =>
       /\ aggregator'._state = aggregator._state
       /\ aggregator'._current_candidate = aggregator._current_candidate
       /\ log'[Len(log')].out = None]_vars

\* the gesture emitted by call i, if any
Emits(i) == IsSome(log[i].out)

\* C33: every gesture the aggregator emits spans at least 2 frames and
\* has a confidence above 0.
C33_EmissionSpansTwoFrames ==
  \A i \in 1..Len(log) :
    Emits(i) => /\ Get(log[i].out).frame_count >= 2
                /\ RLt(RZero, Get(log[i].out).confidence)

\* the gestures emitted by force_finalize and by reaching
\* stability_threshold span at least 2 frames and have a confidence above 0
C33_ForcedAndStableSpanTwoFrames ==
  \A i \in 1..Len(log) :
    (Emits(i) /\ (log[i].op = "force_finalize" \/ log[i].state = "STABLE"))
      => /\ Get(log[i].out).frame_count >= 2
         /\ RLt(RZero, Get(log[i].out).confidence)

\* the frame id process_frame gave the frame of call j: the frames
\* processed since construction or the last clear()
FrameId(j) ==
  Cardinality({ k \in (LastClear(SubSeq(log, 1, j)) + 1)..j : log[k].op = "process_frame" })

\* call j showed the label within the supporting frame range of gesture g
Backs(j, g) ==
  /\ Shows(log[j], g.label)
  /\ FrameId(j) >= g.supporting_frames[1]
  /\ FrameId(j) <= g.supporting_frames[Len(g.supporting_frames)]

\* C34: the label of every emitted gesture is the predicted label of a
\* hand-detected frame of confidence >= min_confidence whose frame id lies
\* within the gesture's supporting frame range.
C34_EmissionBackedByPrediction ==
  \A i \in 1..Len(log) :
    Emits(i) =>
      \E j \in (LastClear(SubSeq(log, 1, i)) + 1)..i : Backs(j, Get(log[i].out))

\* the label of every emitted gesture was shown by some frame since the
\* last clear()
C34_EmissionLabelWasShown ==
  \A i \in 1..Len(log) :
    Emits(i) =>
      \E j \in (LastClear(SubSeq(log, 1, i)) + 1)..i : Shows(log[j], Get(log[i].out).label)

\* C35: each candidate is emitted at most once, also when the
\* gesture-recognized callback calls force_finalize(): no call hands more
\* than one gesture to the callback.
C35_ReentryEmitsNothing ==
  \A i \in 1..Len(log) : Len(log[i].emitted) <= 1

\* a re-entrant force_finalize() emits nothing when the candidate being
\* emitted spans a single frame, and the aggregator holds no candidate
\* after a call that emitted
C35_ReentryOfShortCandidate ==
  \A i \in 1..Len(log) :
    /\ (log[i].emitted # <<>> /\ log[i].emitted[1].frame_count < 2)
         => Len(log[i].emitted) = 1
    /\ (log[i].emitted # <<>> /\ log[i].op = "force_finalize") => ~IsSome(log[i].candidate)
    /\ \A k \in 1..Len(log[i].emitted) : log[i].emitted[k] = log[i].emitted[1]

(***************************************************************************)
(* Further properties of the pipeline (Spec)                               *)
(***************************************************************************)
\* the callbacks of this name that the next call fires
FiredNext(cb) == SelectSeq(pipeline'.events, LAMBDA e : e.cb = cb)

\* C32: after a process_frame call in LIVE_ACCUMULATE mode has fired
\* translation-complete, a further process_frame call in which no gesture
\* is recognized does not fire translation-complete again.
C32_SentenceCompletedOnce ==
  [][(/\ call.op = "process_frame"
      /\ pipeline._state.mode = "LIVE_ACCUMULATE"
      /\ Fired("translation_complete") # <<>>
      /\ call'.op = "process_frame"
      /\ FiredNext("gesture_recognized") = <<>>)
     => FiredNext("translation_complete") = <<>>]_vars

\* the TranslationResult the last call produced, if any
LastResult ==
  IF call.op = "stop_and_translate" THEN Some(call.value[1])
  ELSE IF call.op = "process_frame" /\ Fired("translation_complete") # <<>>
  THEN Some(Fired("translation_complete")[1].arg[1])
  ELSE None

\* the sentences completed by the sentence timeout before the last call
EarlierSentences ==
  IF call.op = "stop_and_translate" THEN session.sentences
  ELSE SubSeq(session.sentences, 1,
              Len(session.sentences) - Len(Fired("translation_complete")))

\* C36: a TranslationResult produced after a sentence was completed by
\* the sentence timeout and further gestures were recognized holds the
\* gestures recognized since then only, and no word of the completed
\* sentence.
C36_SentencesDoNotBleed ==
  IsSome(LastResult) =>
    \A k \in 1..Len(EarlierSentences) :
      LET since == pipeline._state.gestures_recognized - EarlierSentences[k].recognized
      IN since > 0 =>
           /\ Get(LastResult).gesture_count = since
           /\ Get(LastResult).word_count <= since

\* the stored text and preview are the constructor's
InSync ==
  /\ pipeline._state.current_text = get_current_text(pipeline.constructor)
  /\ pipeline._state.current_preview = get_preview(pipeline.constructor)

\* C38: after process_frame, process_gesture, insert_space, delete_last,
\* stop_and_translate, clear and start the stored current_text and
\* current_preview equal the constructor's current text and preview.
C38_DisplayStateInSync ==
  call.op \in {"process_frame", "process_gesture", "insert_space", "delete_last",
               "stop_and_translate", "clear", "start"} => InSync

\* after insert_space, delete_last and a process_gesture call that
\* recognized its gesture the stored text and preview are the constructor's
C38_RefreshingCallsInSync ==
  (\/ call.op \in {"insert_space", "delete_last"}
   \/ call.op = "process_gesture" /\ IsSome(call.value[1])) => InSync

\* the gestures recorded in the constructor's gesture sequence
Recorded == pipeline.constructor._gesture_sequence.gestures

\* C39: gestures_recognized is the number of gestures recorded in the
\* constructor's gesture sequence, and a process_frame or
\* stop_and_translate call records exactly the gesture the aggregator
\* emitted in it, once.
C39_GesturesCountedOnce ==
  /\ pipeline._state.gestures_recognized = Len(Recorded)
  /\ call.op \in {"process_frame", "stop_and_translate"} =>
       /\ Len(Recorded) - call.pre.gesture_count = Len(Fired("gesture_recognized"))
       /\ Len(Fired("gesture_recognized")) <= 1
       /\ Fired("gesture_recognized") # <<>> =>
            /\ Last(Recorded) = Fired("gesture_recognized")[1].arg[1]
            /\ Some(Last(Recorded)) = pipeline.aggregator._last_stable_gesture
                 \/ Last(Recorded).is_word_level
       /\ call.op = "process_frame" =>
            (IsSome(call.value[1]) <=> Fired("gesture_recognized") # <<>>)

\* a process_frame call in which the aggregator emitted the second gesture
\* of the session, the first having come through process_gesture
C39_Witness ==
  /\ call.op = "process_frame"
  /\ IsSome(call.value[1])
  /\ Len(Fired("gesture_recognized")) = 1
  /\ pipeline._state.gestures_recognized = 2
  /\ Len(Recorded) = 2
  /\ Recorded[2].label = <<"B">>

(***************************************************************************)
(* Further properties of the sentence constructor (SpecConstructor)        *)
(***************************************************************************)
\* C37: the letters and the confidences of the word in progress have the
\* same length in every reachable state.
C37_LettersAndConfidencesParallel ==
  Len(constructor._current_word.letters) = Len(constructor._current_word.confidences)

\* they have the same length as long as remove_last_letter has not been
\* called
C37_ParallelWithoutRemoveLastLetter ==
  (\A i \in 1..Len(log) : log[i].op # "remove_last_letter")
    => Len(constructor._current_word.letters) = Len(constructor._current_word.confidences)
====
